---- MODULE Spec2Model ----
(***************************************************************************)
(* Model of the SPL regex portability audit                                *)
(* (src/spl_regex_portability_audit.py).                                   *)
(*                                                                         *)
(* Text is a sequence of one-character strings.  Offsets are the 0-based   *)
(* offsets of the Python source; Idx and Slice translate them to the       *)
(* 1-based sequences of TLA+.                                              *)
(***************************************************************************)
EXTENDS Integers, Sequences, FiniteSets, TLC

VARIABLES
    sc,          \* the frame of one _scan_quoted call
    curline,     \* the line being tokenized and extracted from (line)
    tokens,      \* what _iter_command_tokens yielded for it
    rex_items,   \* what extract_from_rex returned for it
    regex_items, \* what extract_from_regex returned for it
    lpc,         \* how far the line has been taken
    file,        \* the lines of the input file, as the stream yields them
    nread,       \* enumerate's i: the number of lines read from the stream
    rows,        \* analyze_file's rows
    totals,      \* analyze_file's totals
    apc,         \* where analyze_file is
    text,        \* the pattern text handed to detect_features
    hits,        \* what detect_features returned for it
    verdict,     \* what incompatible_for returned for it, per engine
    dpc,         \* how far the pattern has been taken
    io,          \* the files opened and closed so far, in order
    fq,          \* the frame of one _find_all_quoted call
    argv,        \* sys.argv[1:]
    disk,        \* what the input path and the two report paths hold
    mpc,         \* where main is
    exit_code,   \* the exit status of the process, once it has exited
    stderr,      \* the messages printed to sys.stderr
    up           \* the frame of one upload_to_opensearch call

lineVars == <<curline, tokens, rex_items, regex_items, lpc>>

fileVars == <<file, nread, rows, totals, apc, io>>

patVars == <<text, hits, verdict, dpc>>

findVars == <<fq>>

mainVars == <<argv, disk, mpc, exit_code, stderr>>

bulkVars == <<up>>

vars ==
    <<sc, curline, tokens, rex_items, regex_items, lpc, file, nread, rows, totals, apc,
      text, hits, verdict, dpc, io, fq, argv, disk, mpc, exit_code, stderr, up>>

(***************************************************************************)
(* Characters and strings                                                  *)
(***************************************************************************)
DQ == "\""
SQ == "'"
BS == "\\"
PIPE == "|"

\* Bound: longest text handed to the quoted-span scanner.
MaxScanLen == 6

\* The characters the scanner distinguishes: both quotes, the backslash and
\* one ordinary character.
ScanAlphabet == {DQ, SQ, BS, "a"}

\* All texts over alphabet A of length at most n.
Strs(A, n) == UNION {[1..k -> A] : k \in 0..n}

\* The value a read outside the text produces (Python raises IndexError).
OOB == "IndexError"

\* s[k] of the source, k a 0-based offset.
Idx(s, k) == IF k >= 0 /\ k < Len(s) THEN s[k + 1] ELSE OOB

\* s[a:b] of the source for 0 <= a, b.
Slice(s, a, b) == SubSeq(s, a + 1, IF b < Len(s) THEN b ELSE Len(s))

\* The least element of a non-empty set of numbers.
Min(S) == CHOOSE m \in S : \A k \in S : m <= k

(***************************************************************************)
(* The regular expressions of the source, as the re module runs them       *)
(*                                                                         *)
(* An expression is a tree of nodes.  Match returns, in the order a        *)
(* backtracking matcher tries them, the ways the node can match at offset  *)
(* p: each a record of the end offset and the groups captured.  The first  *)
(* element is the match re reports.                                        *)
(***************************************************************************)
UpperLetters ==
    <<"A", "B", "C", "D", "E", "F", "G", "H", "I", "J", "K", "L", "M",
      "N", "O", "P", "Q", "R", "S", "T", "U", "V", "W", "X", "Y", "Z">>

LowerLetters ==
    <<"a", "b", "c", "d", "e", "f", "g", "h", "i", "j", "k", "l", "m",
      "n", "o", "p", "q", "r", "s", "t", "u", "v", "w", "x", "y", "z">>

Range(f) == {f[k] : k \in DOMAIN f}

Digits == {"0", "1", "2", "3", "4", "5", "6", "7", "8", "9"}

\* \w and \s on the ASCII characters of the model.
WordChars == Range(UpperLetters) \cup Range(LowerLetters) \cup Digits \cup {"_"}

WhiteSpace == {" ", "\t"}

\* str.lower() on the upper-case letters.
LowerOf ==
    [c \in Range(UpperLetters) |->
        LowerLetters[CHOOSE k \in DOMAIN UpperLetters : UpperLetters[k] = c]]

\* str.lower() on one character.
Lower(c) == IF c \in DOMAIN LowerOf THEN LowerOf[c] ELSE c

LowerStr(w) == [k \in DOMAIN w |-> Lower(w[k])]

Node(t, c, cs, xs) == [t |-> t, c |-> c, cs |-> cs, xs |-> xs]

Lit(c) == Node("lit", c, {}, <<>>)
In(cs) == Node("in", "", cs, <<>>)
NotIn(cs) == Node("notin", "", cs, <<>>)
Cat(xs) == Node("cat", "", {}, xs)
Alt(xs) == Node("alt", "", {}, xs)
Star(x) == Node("star", "", {}, <<x>>)
Plus(x) == Cat(<<x, Star(x)>>)
Opt(x) == Alt(<<x, Cat(<<>>)>>)
Grp(name, x) == Node("grp", name, {}, <<x>>)
NotBehind(cs) == Node("notbehind", "", cs, <<>>)
NotAhead(cs) == Node("notahead", "", cs, <<>>)
WordB == Node("wordb", "", {}, <<>>)
Bol == Node("bol", "", {}, <<>>)
Str(w) == Cat([k \in DOMAIN w |-> Lit(w[k])])

Hit(e, g) == [e |-> e, g |-> g]

RECURSIVE Match(_, _, _, _)
RECURSIVE MatchCat(_, _, _, _, _)
RECURSIVE MatchAlt(_, _, _, _, _)
RECURSIVE MatchStar(_, _, _, _)
RECURSIVE MatchThen(_, _, _, _, _, _)
RECURSIVE MatchAgain(_, _, _, _, _)

\* ic: re.IGNORECASE.
Match(re, s, p, ic) ==
    LET ch == Idx(s, p)
        same(a, b) == IF ic THEN Lower(a) = Lower(b) ELSE a = b
        inside == p < Len(s)
    IN  CASE re.t = "lit" ->
               IF inside /\ same(ch, re.c) THEN <<Hit(p + 1, <<>>)>> ELSE <<>>
          [] re.t = "in" ->
               IF inside /\ ch \in re.cs THEN <<Hit(p + 1, <<>>)>> ELSE <<>>
          [] re.t = "notin" ->
               IF inside /\ ch \notin re.cs THEN <<Hit(p + 1, <<>>)>> ELSE <<>>
          [] re.t = "cat" -> MatchCat(re.xs, 1, s, p, ic)
          [] re.t = "alt" -> MatchAlt(re.xs, 1, s, p, ic)
          [] re.t = "star" -> MatchStar(re.xs[1], s, p, ic)
          [] re.t = "grp" ->
               LET hs == Match(re.xs[1], s, p, ic)
               IN  [k \in DOMAIN hs |->
                       Hit(hs[k].e, <<[name |-> re.c, s |-> p, e |-> hs[k].e]>> \o hs[k].g)]
          [] re.t = "notbehind" ->
               IF p > 0 /\ Idx(s, p - 1) \in re.cs THEN <<>> ELSE <<Hit(p, <<>>)>>
          [] re.t = "notahead" ->
               IF inside /\ ch \in re.cs THEN <<>> ELSE <<Hit(p, <<>>)>>
          [] re.t = "wordb" ->
               IF (p > 0 /\ Idx(s, p - 1) \in WordChars) # (inside /\ ch \in WordChars)
               THEN <<Hit(p, <<>>)>> ELSE <<>>
          [] re.t = "bol" -> IF p = 0 THEN <<Hit(p, <<>>)>> ELSE <<>>

\* xs[k..] in sequence from p.
MatchCat(xs, k, s, p, ic) ==
    IF k > Len(xs) THEN <<Hit(p, <<>>)>>
    ELSE MatchThen(Match(xs[k], s, p, ic), 1, xs, k + 1, s, ic)

\* Each way hs[j..] of matching the head, followed by xs[k..].
MatchThen(hs, j, xs, k, s, ic) ==
    IF j > Len(hs) THEN <<>>
    ELSE LET rest == MatchCat(xs, k, s, hs[j].e, ic)
         IN  [m \in DOMAIN rest |-> Hit(rest[m].e, hs[j].g \o rest[m].g)]
             \o MatchThen(hs, j + 1, xs, k, s, ic)

\* The alternatives xs[k..], leftmost first.
MatchAlt(xs, k, s, p, ic) ==
    IF k > Len(xs) THEN <<>>
    ELSE Match(xs[k], s, p, ic) \o MatchAlt(xs, k + 1, s, p, ic)

\* x*, greedy: one more x first, the empty match last.
MatchStar(x, s, p, ic) ==
    MatchAgain(Match(x, s, p, ic), 1, x, s, ic) \o <<Hit(p, <<>>)>>

MatchAgain(hs, j, x, s, ic) ==
    IF j > Len(hs) THEN <<>>
    ELSE LET rest == MatchStar(x, s, hs[j].e, ic)
         IN  [m \in DOMAIN rest |-> Hit(rest[m].e, hs[j].g \o rest[m].g)]
             \o MatchAgain(hs, j + 1, x, s, ic)

NoMatch == [found |-> FALSE, start |-> -1, end |-> -1, g |-> <<>>]

\* re.search(re, s[from:]) with offsets of s: the leftmost start that
\* matches, and there the first match in the matcher's order.
RECURSIVE SearchFrom(_, _, _, _)
SearchFrom(re, s, p, ic) ==
    IF p > Len(s) THEN NoMatch
    ELSE LET hs == Match(re, s, p, ic)
         IN  IF hs # <<>>
             THEN [found |-> TRUE, start |-> p, end |-> hs[1].e, g |-> hs[1].g]
             ELSE SearchFrom(re, s, p + 1, ic)

Search(re, s, ic) == SearchFrom(re, s, 0, ic)

\* m.group(name): the text of the first capture of that name.
Group(m, s, name) ==
    LET k == CHOOSE k \in DOMAIN m.g : m.g[k].name = name
    IN  Slice(s, m.g[k].s, m.g[k].e)

\* re.finditer: the non-overlapping matches from left to right.  (None of
\* the expressions iterated over matches the empty text.)
RECURSIVE FindIter(_, _, _, _)
FindIter(re, s, p, ic) ==
    LET m == SearchFrom(re, s, p, ic)
    IN  IF ~m.found THEN <<>>
        ELSE <<m>> \o FindIter(re, s, IF m.end > m.start THEN m.end ELSE m.end + 1, ic)

(***************************************************************************)
(* _scan_quoted: one quoted literal starting at offset i                   *)
(***************************************************************************)
None == [ok |-> FALSE, end |-> -1, content |-> <<>>]

Span(end, content) == [ok |-> TRUE, end |-> end, content |-> content]

\* The scanner's frame on entry: text s, offset i.
ScanFrame(s, i) ==
    [s |-> s, i0 |-> i, i |-> i, start |-> -1, quote |-> "", dialect |-> "none",
     pc |-> "entry", res |-> None]

ScanReturn(st, r) == [st EXCEPT !.pc = "done", !.res = r]

ScanRaise(st) == [st EXCEPT !.pc = "raise"]

\* Faulty variant of ScanEntryStep: the doubled-quote dialect is never chosen.
ScanEntryStep_NoDoubled(st) ==
    LET s == st.s
        i == st.i
        n == Len(s)
    IN  IF i >= n THEN ScanReturn(st, None)
        ELSE LET ch == Idx(s, i) IN
             IF ch \notin {SQ, DQ} THEN ScanReturn(st, None)
             ELSE [st EXCEPT !.quote = ch, !.i = i + 1, !.start = i + 1,
                             !.dialect = "standard", !.pc = "standard"]

\* Lines 106-130: the guards and the choice of dialect.
ScanEntryStep(st) ==
    LET s == st.s
        i == st.i
        n == Len(s)
    IN  IF i >= n THEN ScanReturn(st, None)
        ELSE LET ch == Idx(s, i) IN
             IF ch = OOB THEN ScanRaise(st)
             ELSE IF ch \notin {SQ, DQ} THEN ScanReturn(st, None)
             ELSE IF ch = DQ /\ i + 1 < n /\ Idx(s, i + 1) = DQ
                  THEN [st EXCEPT !.i = i + 2, !.start = i + 2,
                                  !.dialect = "doubled", !.pc = "doubled"]
                  ELSE [st EXCEPT !.quote = ch, !.i = i + 1, !.start = i + 1,
                                  !.dialect = "standard", !.pc = "standard"]

\* Faulty variant of ScanDoubledStep: the loop runs while i < n (off by one).
ScanDoubledStep_OffByOne(st) ==
    LET s == st.s
        i == st.i
        n == Len(s)
    IN  IF i < n
        THEN IF Idx(s, i) = OOB \/ Idx(s, i + 1) = OOB THEN ScanRaise(st)
             ELSE IF Idx(s, i) = DQ /\ Idx(s, i + 1) = DQ
                  THEN ScanReturn(st, Span(i + 2, Slice(s, st.start, i)))
                  ELSE [st EXCEPT !.i = i + 1]
        ELSE ScanReturn(st, None)

\* Faulty variant of ScanDoubledStep: a lone double quote closes the span.
ScanDoubledStep_LoneQuote(st) ==
    LET s == st.s
        i == st.i
        n == Len(s)
    IN  IF i < n - 1
        THEN IF Idx(s, i) = DQ
             THEN ScanReturn(st, Span(i + 2, Slice(s, st.start, i)))
             ELSE [st EXCEPT !.i = i + 1]
        ELSE ScanReturn(st, None)

\* Lines 119-125: one iteration of the doubled-quote loop.
ScanDoubledStep(st) ==
    LET s == st.s
        i == st.i
        n == Len(s)
    IN  IF i < n - 1
        THEN IF Idx(s, i) = OOB \/ Idx(s, i + 1) = OOB THEN ScanRaise(st)
             ELSE IF Idx(s, i) = DQ /\ Idx(s, i + 1) = DQ
                  THEN ScanReturn(st, Span(i + 2, Slice(s, st.start, i)))
                  ELSE [st EXCEPT !.i = i + 1]
        ELSE ScanReturn(st, None)

\* Faulty variant of ScanStandardStep: a backslash does not skip the next character.
ScanStandardStep_NoEscape(st) ==
    LET s == st.s
        i == st.i
        n == Len(s)
    IN  IF i < n
        THEN IF Idx(s, i) = st.quote
             THEN ScanReturn(st, Span(i + 1, Slice(s, st.start, i)))
             ELSE [st EXCEPT !.i = i + 1]
        ELSE ScanReturn(st, None)

\* Faulty variant of ScanStandardStep: the closing quote is kept in the content.
ScanStandardStep_KeepsQuote(st) ==
    LET s == st.s
        i == st.i
        n == Len(s)
    IN  IF i < n
        THEN IF Idx(s, i) = BS THEN [st EXCEPT !.i = i + 2]
             ELSE IF Idx(s, i) = st.quote
                  THEN ScanReturn(st, Span(i + 1, Slice(s, st.start, i + 1)))
                  ELSE [st EXCEPT !.i = i + 1]
        ELSE ScanReturn(st, None)

\* Escape pairs resolved: each backslash is dropped and the character after
\* it kept.
RECURSIVE Unescape(_)
Unescape(c) ==
    IF c = <<>> THEN <<>>
    ELSE IF Head(c) = BS
         THEN IF Len(c) >= 2 THEN <<c[2]>> \o Unescape(SubSeq(c, 3, Len(c)))
              ELSE <<>>
         ELSE <<Head(c)>> \o Unescape(Tail(c))

\* Faulty variant of ScanStandardStep: the content is returned with escapes resolved.
ScanStandardStep_Decoding(st) ==
    LET s == st.s
        i == st.i
        n == Len(s)
    IN  IF i < n
        THEN IF Idx(s, i) = BS THEN [st EXCEPT !.i = i + 2]
             ELSE IF Idx(s, i) = st.quote
                  THEN ScanReturn(st, Span(i + 1, Unescape(Slice(s, st.start, i))))
                  ELSE [st EXCEPT !.i = i + 1]
        ELSE ScanReturn(st, None)

\* Lines 131-139: one iteration of the standard-quote loop.
ScanStandardStep(st) ==
    LET s == st.s
        i == st.i
        n == Len(s)
    IN  IF i < n
        THEN IF Idx(s, i) = OOB THEN ScanRaise(st)
             ELSE IF Idx(s, i) = BS THEN [st EXCEPT !.i = i + 2]
             ELSE IF Idx(s, i) = st.quote
                  THEN ScanReturn(st, Span(i + 1, Slice(s, st.start, i)))
                  ELSE [st EXCEPT !.i = i + 1]
        ELSE ScanReturn(st, None)

ScanStep(st) ==
    CASE st.pc = "entry" -> ScanEntryStep(st)
      [] st.pc = "doubled" -> ScanDoubledStep(st)
      [] st.pc = "standard" -> ScanStandardStep(st)
      [] OTHER -> st

RECURSIVE ScanRun(_)
ScanRun(st) == IF st.pc \in {"done", "raise"} THEN st ELSE ScanRun(ScanStep(st))

\* _scan_quoted(s, i) as its callers see it: the value the run returns.
_scan_quoted(s, i) == ScanRun(ScanFrame(s, i)).res

(***************************************************************************)
(* _find_all_quoted: every quoted literal of a text, left to right         *)
(***************************************************************************)
\* Faulty variant of FindAllQuotedFrom: a failed attempt ends the scan.
RECURSIVE FindAllQuotedFrom_StopsAtFailure(_, _)
FindAllQuotedFrom_StopsAtFailure(s, i) ==
    IF i >= Len(s) THEN <<>>
    ELSE IF Idx(s, i) \in {SQ, DQ}
         THEN LET res == _scan_quoted(s, i)
              IN  IF res # None
                  THEN <<[start |-> i, end |-> res.end, content |-> res.content]>>
                       \o FindAllQuotedFrom_StopsAtFailure(s, res.end)
                  ELSE <<>>
         ELSE FindAllQuotedFrom_StopsAtFailure(s, i + 1)

RECURSIVE FindAllQuotedFrom(_, _)
FindAllQuotedFrom(s, i) ==
    IF i >= Len(s) THEN <<>>
    ELSE IF Idx(s, i) \in {SQ, DQ}
         THEN LET res == _scan_quoted(s, i)
              IN  IF res # None
                  THEN <<[start |-> i, end |-> res.end, content |-> res.content]>>
                       \o FindAllQuotedFrom(s, res.end)
                  ELSE FindAllQuotedFrom(s, i + 1)
         ELSE FindAllQuotedFrom(s, i + 1)

_find_all_quoted(s) == FindAllQuotedFrom(s, 0)

(***************************************************************************)
(* The command tokenizer                                                   *)
(***************************************************************************)
REX == <<"r", "e", "x">>
REGEX == <<"r", "e", "g", "e", "x">>

\* Faulty variant of WORD_BOUNDARY: the lookbehind is missing.
WORD_BOUNDARY_NoLookbehind ==
    Alt(<<Cat(<<Str(REX), NotAhead(WordChars)>>),
          Cat(<<Str(REGEX), NotAhead(WordChars)>>)>>)

\* (?<!\w)rex(?!\w)|(?<!\w)regex(?!\w), re.IGNORECASE
WORD_BOUNDARY ==
    Alt(<<Cat(<<NotBehind(WordChars), Str(REX), NotAhead(WordChars)>>),
          Cat(<<NotBehind(WordChars), Str(REGEX), NotAhead(WordChars)>>)>>)

Token(cmd, s, e) == [cmd |-> cmd, s |-> s, e |-> e]

_iter_command_tokens(line) ==
    LET ms == FindIter(WORD_BOUNDARY, line, 0, TRUE)
    IN  [k \in DOMAIN ms |->
            Token(LowerStr(Slice(line, ms[k].start, ms[k].end)), ms[k].start, ms[k].end)]

(***************************************************************************)
(* extract_from_rex                                                        *)
(***************************************************************************)
Item(cmd, cmd_i, field, pattern, sub_i) ==
    [cmd |-> cmd, cmd_index_on_line |-> cmd_i, field |-> field,
     pattern |-> pattern, pattern_index_in_cmd |-> sub_i]

\* Line 178: while i < n and line[i].isspace(): i += 1
RECURSIVE SkipSpaces(_, _)
SkipSpaces(line, i) ==
    IF i < Len(line) /\ Idx(line, i) \in WhiteSpace THEN SkipSpaces(line, i + 1) ELSE i

\* Faulty variant of SkipArgs: the pipe does not stop the skipping.
RECURSIVE SkipArgs_IgnoresPipe(_, _)
SkipArgs_IgnoresPipe(line, i) ==
    IF i < Len(line) /\ Idx(line, i) \notin {SQ, DQ}
    THEN SkipArgs_IgnoresPipe(line, i + 1)
    ELSE i

\* Lines 181-185: skip to the first quote, stopping at a pipe.
RECURSIVE SkipArgs(_, _)
SkipArgs(line, i) ==
    IF i < Len(line) /\ Idx(line, i) \notin {SQ, DQ}
    THEN IF Idx(line, i) = PIPE THEN i ELSE SkipArgs(line, i + 1)
    ELSE i

\* Faulty variant of RexOccurrence: the scanner sees the line up to the next pipe only.
RexOccurrence_CutAtPipe(line, cmd_i, tok) ==
    IF tok.cmd # REX THEN <<>>
    ELSE LET i == SkipArgs(line, SkipSpaces(line, tok.e))
             P == {j \in i..(Len(line) - 1) : Idx(line, j) = PIPE}
             cut == IF P = {} THEN Len(line) ELSE Min(P)
         IN  IF i >= Len(line) \/ Idx(line, i) = PIPE THEN <<>>
             ELSE LET scanned == _scan_quoted(Slice(line, 0, cut), i)
                  IN  IF scanned = None THEN <<>>
                      ELSE <<Item(REX, cmd_i, <<>>, scanned.content, 1)>>

\* Lines 172-199: the records of the cmd_i-th token (none or one).
RexOccurrence(line, cmd_i, tok) ==
    IF tok.cmd # REX THEN <<>>
    ELSE LET i == SkipArgs(line, SkipSpaces(line, tok.e))
         IN  IF i >= Len(line) \/ Idx(line, i) = PIPE THEN <<>>
             ELSE LET scanned == _scan_quoted(line, i)
                  IN  IF scanned = None THEN <<>>
                      ELSE <<Item(REX, cmd_i, <<>>, scanned.content, 1)>>

\* Faulty variant of RexLoop: a failed scan ends the loop (break in place of
\* continue).
RECURSIVE RexLoop_StopsAtFailure(_, _, _)
RexLoop_StopsAtFailure(line, toks, cmd_i) ==
    IF cmd_i > Len(toks) THEN <<>>
    ELSE LET i == SkipArgs(line, SkipSpaces(line, toks[cmd_i].e))
             failed == /\ toks[cmd_i].cmd = REX
                       /\ i < Len(line) /\ Idx(line, i) # PIPE
                       /\ _scan_quoted(line, i) = None
         IN  IF failed THEN <<>>
             ELSE RexOccurrence(line, cmd_i, toks[cmd_i])
                  \o RexLoop_StopsAtFailure(line, toks, cmd_i + 1)

\* Lines 171-200: the loop over the enumerated tokens, from the cmd_i-th.
RECURSIVE RexLoop(_, _, _)
RexLoop(line, toks, cmd_i) ==
    IF cmd_i > Len(toks) THEN <<>>
    ELSE RexOccurrence(line, cmd_i, toks[cmd_i]) \o RexLoop(line, toks, cmd_i + 1)

extract_from_rex(line) == RexLoop(line, _iter_command_tokens(line), 1)

(***************************************************************************)
(* extract_from_regex                                                      *)
(***************************************************************************)
\* (?<!\w)regex(?!\w), re.IGNORECASE
REGEX_TOKEN == Cat(<<NotBehind(WordChars), Str(REGEX), NotAhead(WordChars)>>)

\* \bfield\s*=\s*([^\s=|]+), re.IGNORECASE
FIELD_RE ==
    Cat(<<WordB, Str(<<"f", "i", "e", "l", "d">>), Star(In(WhiteSpace)), Lit("="),
          Star(In(WhiteSpace)), Grp("1", Plus(NotIn(WhiteSpace \cup {"=", PIPE})))>>)

\* (?:^|\s)(?P<name>[\w\.\-]+)\s*=
LEAD_RE ==
    Cat(<<Alt(<<Bol, In(WhiteSpace)>>), Grp("name", Plus(In(WordChars \cup {".", "-"}))),
          Star(In(WhiteSpace)), Lit("=")>>)

\* line.find(c, from): the first offset >= from holding c, or -1.
Find(line, c, from) ==
    LET J == {j \in from..(Len(line) - 1) : Idx(line, j) = c}
    IN  IF J = {} THEN -1 ELSE CHOOSE j \in J : \A k \in J : j <= k

\* Faulty variant of Body: the body runs to the end of the line.
Body_ToLineEnd(line, e) == Slice(line, e, Len(line))

\* Faulty variant of Body: a pipe inside a quoted span does not end the body.
Body_QuoteAware(line, e) ==
    LET spans == FindAllQuotedFrom(line, e)
        P == {j \in e..(Len(line) - 1) :
                 /\ Idx(line, j) = PIPE
                 /\ \A k \in DOMAIN spans : ~(spans[k].start < j /\ j < spans[k].end)}
    IN  Slice(line, e, IF P = {} THEN Len(line) ELSE Min(P))

\* Lines 215-217: the body of the command whose keyword ends at e.
Body(line, e) ==
    LET end == Find(line, PIPE, e)
    IN  IF end # -1 THEN Slice(line, e, end) ELSE Slice(line, e, Len(line))

\* Faulty variant of FieldOf: the leading assignment is tried first.
FieldOf_LeadFirst(body) ==
    LET m_field == Search(FIELD_RE, body, TRUE)
        lead == Search(LEAD_RE, body, FALSE)
    IN  IF lead.found /\ LowerStr(Group(lead, body, "name")) # <<"f", "i", "e", "l", "d">>
        THEN Group(lead, body, "name")
        ELSE IF m_field.found THEN Group(m_field, body, "1")
             ELSE <<>>

\* Lines 219-226: best-effort field of a body.
FieldOf(body) ==
    LET m_field == Search(FIELD_RE, body, TRUE)
        lead == Search(LEAD_RE, body, FALSE)
    IN  IF m_field.found THEN Group(m_field, body, "1")
        ELSE IF lead.found /\ LowerStr(Group(lead, body, "name")) # <<"f", "i", "e", "l", "d">>
             THEN Group(lead, body, "name")
             ELSE <<>>

\* Lines 229-239: one record per quoted literal of the body.
RegexItems(cmd_index, field, quotes) ==
    [sub_i \in DOMAIN quotes |->
        Item(REGEX, cmd_index, field, quotes[sub_i].content, sub_i)]

\* Lines 207-241: the loop, searching from pos with cmd_index commands seen.
RECURSIVE RegexLoop(_, _, _)
RegexLoop(line, pos, cmd_index) ==
    LET m == Search(REGEX_TOKEN, Slice(line, pos, Len(line)), TRUE)
    IN  IF ~m.found THEN <<>>
        ELSE LET e == pos + m.end
                 body == Body(line, e)
             IN  RegexItems(cmd_index + 1, FieldOf(body), _find_all_quoted(body))
                 \o RegexLoop(line, e, cmd_index + 1)

extract_from_regex(line) == RegexLoop(line, 0, 0)

(***************************************************************************)
(* DETECTORS, JAVA_INCOMPATIBLE, LUCENE_INCOMPATIBLE                       *)
(***************************************************************************)
Letters == Range(UpperLetters) \cup Range(LowerLetters)

\* The catalog in the order of the dict; above each entry, its expression
\* in the source.
DETECTORS ==
    <<
    \* \(\?=|\(\?!
     [name |-> "lookahead",
      rx |->
       Alt(<<Str(<<"(", "?", "=">>), Str(<<"(", "?", "!">>)>>)],
    \* \(\?<=|\(\?<!
     [name |-> "lookbehind",
      rx |->
       Alt(<<Str(<<"(", "?", "<", "=">>), Str(<<"(", "?", "<", "!">>)>>)],
    \* \(\?>
     [name |-> "atomic_group",
      rx |->
       Str(<<"(", "?", ">">>)],
    \* (?<!\\)(?:\+\+|\*\+|\?\+)
     [name |-> "possessive_quantifier",
      rx |->
       Cat(<<NotBehind({BS}), Alt(<<Str(<<"+", "+">>), Str(<<"*", "+">>),
       Str(<<"?", "+">>)>>)>>)],
    \* \(\*(?:PRUNE|SKIP|COMMIT|THEN|ACCEPT|FAIL)\)
     [name |-> "backtracking_control",
      rx |->
       Cat(<<Str(<<"(", "*">>), Alt(<<Str(<<"P", "R", "U", "N", "E">>),
       Str(<<"S", "K", "I", "P">>), Str(<<"C", "O", "M", "M", "I", "T">>),
       Str(<<"T", "H", "E", "N">>), Str(<<"A", "C", "C", "E", "P", "T">>),
       Str(<<"F", "A", "I", "L">>)>>), Lit(")")>>)],
    \* \(\?\|
     [name |-> "branch_reset",
      rx |->
       Str(<<"(", "?", PIPE>>)],
    \* \(\?R\)|\(\?0\)
     [name |-> "recursion",
      rx |->
       Alt(<<Str(<<"(", "?", "R", ")">>), Str(<<"(", "?", "0", ")">>)>>)],
    \* \\g(?:\d+|\{\d+\})
     [name |-> "subroutine_number",
      rx |->
       Cat(<<Str(<<BS, "g">>), Alt(<<Plus(In(Digits)), Cat(<<Lit("{"),
       Plus(In(Digits)), Lit("}")>>)>>)>>)],
    \* \\g(?:['\{][A-Za-z_][A-Za-z0-9_]*['\}])|\(\?&[A-Za-z_][A-Za-z0-9_]*\)
     [name |-> "subroutine_name",
      rx |->
       Alt(<<Cat(<<Str(<<BS, "g">>), In({SQ, "{"}), In(Letters \cup {"_"}),
       Star(In(Letters \cup Digits \cup {"_"})), In({SQ, "}"})>>),
       Cat(<<Str(<<"(", "?", "&">>), In(Letters \cup {"_"}), Star(In(Letters
       \cup Digits \cup {"_"})), Lit(")")>>)>>)],
    \* \(\?\([^\)]*\)
     [name |-> "conditional",
      rx |->
       Cat(<<Str(<<"(", "?", "(">>), Star(NotIn({")"})), Lit(")")>>)],
    \* \(\?C\d*\)
     [name |-> "callout",
      rx |->
       Cat(<<Str(<<"(", "?", "C">>), Star(In(Digits)), Lit(")")>>)],
    \* \\k<[^>]+>
     [name |-> "named_backref_k",
      rx |->
       Cat(<<Str(<<BS, "k", "<">>), Plus(NotIn({">"})), Lit(">")>>)],
    \* \(\?<[_A-Za-z]\w*>
     [name |-> "named_capture_angle",
      rx |->
       Cat(<<Str(<<"(", "?", "<">>), In(Letters \cup {"_"}),
       Star(In(WordChars)), Lit(">")>>)],
    \* \(\?'[_A-Za-z]\w*'
     [name |-> "named_capture_single",
      rx |->
       Cat(<<Str(<<"(", "?", SQ>>), In(Letters \cup {"_"}),
       Star(In(WordChars)), Lit(SQ)>>)],
    \* (?<!\\)\\[1-9]\d*
     [name |-> "backref_number",
      rx |->
       Cat(<<NotBehind({BS}), Lit(BS), In(Digits \ {"0"}), Star(In(Digits))>>)],
    \* \(\?[imsUx-]+(?:-[imsUx]+)?\)
     [name |-> "inline_flags",
      rx |->
       Cat(<<Str(<<"(", "?">>), Plus(In({"i", "m", "s", "U", "x", "-"})),
       Opt(Cat(<<Lit("-"), Plus(In({"i", "m", "s", "U", "x"}))>>)), Lit(")")>>)],
    \* \(\*(?:UTF8|UTF|UCP|NO_START_OPT|BSR_[A-Z]+)\)
     [name |-> "mode_modifier",
      rx |->
       Cat(<<Str(<<"(", "*">>), Alt(<<Str(<<"U", "T", "F", "8">>), Str(<<"U",
       "T", "F">>), Str(<<"U", "C", "P">>), Str(<<"N", "O", "_", "S", "T", "A",
       "R", "T", "_", "O", "P", "T">>), Cat(<<Str(<<"B", "S", "R", "_">>),
       Plus(In(Range(UpperLetters)))>>)>>), Lit(")")>>)]
    >>

\* Faulty variant of JAVA_INCOMPATIBLE: the lookarounds, the possessive quantifier
\* and the angle-bracket named capture are in the table.
JAVA_INCOMPATIBLE_WithLookarounds ==
    {"lookahead", "lookbehind", "possessive_quantifier", "named_capture_angle",
    "backtracking_control", "branch_reset", "recursion",
    "subroutine_number", "subroutine_name", "conditional", "callout",
    "mode_modifier"}

JAVA_INCOMPATIBLE ==
    {"backtracking_control", "branch_reset", "recursion",
    "subroutine_number", "subroutine_name", "conditional", "callout",
    "mode_modifier"}

\* Faulty variant of LUCENE_INCOMPATIBLE: recursion is missing from the table.
LUCENE_INCOMPATIBLE_WithoutRecursion ==
    {"lookahead", "lookbehind", "atomic_group", "possessive_quantifier",
    "backtracking_control", "branch_reset",
    "subroutine_number", "subroutine_name", "conditional", "callout",
    "named_backref_k", "named_capture_angle", "named_capture_single",
    "backref_number", "inline_flags", "mode_modifier"}

\* Faulty variant of LUCENE_INCOMPATIBLE: atomic_group is missing from the table.
LUCENE_INCOMPATIBLE_WithoutAtomicGroup ==
    {"lookahead", "lookbehind", "possessive_quantifier",
    "backtracking_control", "branch_reset", "recursion",
    "subroutine_number", "subroutine_name", "conditional", "callout",
    "named_backref_k", "named_capture_angle", "named_capture_single",
    "backref_number", "inline_flags", "mode_modifier"}

LUCENE_INCOMPATIBLE ==
    {"lookahead", "lookbehind", "atomic_group", "possessive_quantifier",
    "backtracking_control", "branch_reset", "recursion",
    "subroutine_number", "subroutine_name", "conditional", "callout",
    "named_backref_k", "named_capture_angle", "named_capture_single",
    "backref_number", "inline_flags", "mode_modifier"}

\* The feature names in the order sorted() gives strings.
Alphabetical ==
    <<"atomic_group", "backref_number", "backtracking_control",
    "branch_reset", "callout", "conditional", "inline_flags", "lookahead",
    "lookbehind", "mode_modifier", "named_backref_k", "named_capture_angle",
    "named_capture_single", "possessive_quantifier", "recursion",
    "subroutine_name", "subroutine_number">>

(***************************************************************************)
(* detect_features, incompatible_for                                       *)
(***************************************************************************)
\* Lines 249-253: the names whose detector matches somewhere, in the order
\* of the catalog.
RECURSIVE DetectFrom(_, _)
DetectFrom(pattern, k) ==
    IF k > Len(DETECTORS) THEN <<>>
    ELSE (IF Search(DETECTORS[k].rx, pattern, FALSE).found
          THEN <<DETECTORS[k].name>> ELSE <<>>)
         \o DetectFrom(pattern, k + 1)

detect_features(pattern) == DetectFrom(pattern, 1)

\* The position of a feature name in the alphabetical order.
Rank(name) == CHOOSE k \in DOMAIN Alphabetical : Alphabetical[k] = name

\* sorted(): insertion of x into the sorted sequence xs.
RECURSIVE Insert(_, _)
Insert(x, xs) ==
    IF xs = <<>> THEN <<x>>
    ELSE IF Rank(x) < Rank(Head(xs)) THEN <<x>> \o xs
         ELSE <<Head(xs)>> \o Insert(x, Tail(xs))

RECURSIVE Sorted(_)
Sorted(xs) == IF xs = <<>> THEN <<>> ELSE Insert(Head(xs), Sorted(Tail(xs)))

\* f for f in features if f in table
RECURSIVE Filter(_, _)
Filter(features, table) ==
    IF features = <<>> THEN <<>>
    ELSE (IF Head(features) \in table THEN <<Head(features)>> ELSE <<>>)
         \o Filter(Tail(features), table)

\* Faulty variant of incompatible_for: the offending features are not sorted.
incompatible_for_Unsorted(engine, features) ==
    LET table == IF engine = "java" THEN JAVA_INCOMPATIBLE ELSE LUCENE_INCOMPATIBLE
        bad == Filter(features, table)
    IN  [incompatible |-> Len(bad) > 0, bad |-> bad]

\* Lines 255-263.  An unknown engine raises ValueError; analyze_file calls
\* with "java" and "lucene" only.
incompatible_for(engine, features) ==
    LET table == IF engine = "java" THEN JAVA_INCOMPATIBLE ELSE LUCENE_INCOMPATIBLE
        bad == Sorted(Filter(features, table))
    IN  [incompatible |-> Len(bad) > 0, bad |-> bad]

(***************************************************************************)
(* Input lines                                                             *)
(***************************************************************************)
\* regex field=x ("a"|"b")
LineRegexTwoQuoted ==
    <<"r", "e", "g", "e", "x", " ", "f", "i", "e", "l", "d", "=", "x", " ", "(", DQ, "a", DQ, PIPE, DQ, "b", DQ, ")">>

\* rex "foo(bar)"
LineRexFoo ==
    <<"r", "e", "x", " ", DQ, "f", "o", "o", "(", "b", "a", "r", ")", DQ>>

\* rex ""a(?<x>b)""
LineRexDoubled ==
    <<"r", "e", "x", " ", DQ, DQ, "a", "(", "?", "<", "x", ">", "b", ")", DQ, DQ>>

\* rex "abc
LineRexUnterminated ==
    <<"r", "e", "x", " ", DQ, "a", "b", "c">>

\* rex "a | rex 'b'
LineRexFailThenOk ==
    <<"r", "e", "x", " ", DQ, "a", " ", PIPE, " ", "r", "e", "x", " ", SQ, "b", SQ>>

\* rex field=f | rex mode=sed "s/a/b/"
LineRexArgsThenPipe ==
    <<"r", "e", "x", " ", "f", "i", "e", "l", "d", "=", "f", " ", PIPE, " ", "r", "e", "x", " ", "m", "o", "d", "e", "=", "s", "e", "d", " ", DQ, "s", "/", "a", "/", "b", "/", DQ>>

\* regex field=x ("a" "b")
LineRegexNoPipe ==
    <<"r", "e", "g", "e", "x", " ", "f", "i", "e", "l", "d", "=", "x", " ", "(", DQ, "a", DQ, " ", DQ, "b", DQ, ")">>

\* rex "a" | regex "b"
LineRexThenRegex ==
    <<"r", "e", "x", " ", DQ, "a", DQ, " ", PIPE, " ", "r", "e", "g", "e", "x", " ", DQ, "b", DQ>>

\* regex "a" regex "b"
LineRegexTwice ==
    <<"r", "e", "g", "e", "x", " ", DQ, "a", DQ, " ", "r", "e", "g", "e", "x", " ", DQ, "b", DQ>>

\* search a=1
LineNoCommand ==
    <<"s", "e", "a", "r", "c", "h", " ", "a", "=", "1">>

\* two spaces
LineBlank ==
    <<" ", " ">>

\* _rex rex_
LineUnderscoreRex ==
    <<"_", "r", "e", "x", " ", "r", "e", "x", "_">>

\* 1regex regex1 REGEX
LineDigitRegex ==
    <<"1", "r", "e", "g", "e", "x", " ", "r", "e", "g", "e", "x", "1", " ", "R", "E", "G", "E", "X">>

\* rex "a\"b" x
LineRexEscaped ==
    <<"r", "e", "x", " ", DQ, "a", BS, DQ, "b", DQ, " ", "x">>

\* regex 'a "b" ""c""
LineRegexUnterminatedThenSpans ==
    <<"r", "e", "g", "e", "x", " ", SQ, "a", " ", DQ, "b", DQ, " ", DQ, DQ, "c", DQ, DQ>>

\* regex x="a" "b|c" "d"
LineRegexPipeInQuotes ==
    <<"r", "e", "g", "e", "x", " ", "x", "=", DQ, "a", DQ, " ", DQ, "b", PIPE, "c", DQ, " ", DQ, "d", DQ>>

\* rex field=f "a|b|c" | stats
LineRexPipeInQuotes ==
    <<"r", "e", "x", " ", "f", "i", "e", "l", "d", "=", "f", " ", DQ, "a", PIPE, "b", PIPE, "c", DQ, " ", PIPE, " ", "s", "t", "a", "t", "s">>

\* rex "(?=a)(?<=b)c++"
LineRexLookarounds ==
    <<"r", "e", "x", " ", DQ, "(", "?", "=", "a", ")", "(", "?", "<", "=", "b", ")", "c", "+", "+", DQ>>

\* regex "(?R)(?>a)\1" "(?=a)"
LineRegexThreeFeatures ==
    <<"r", "e", "g", "e", "x", " ", DQ, "(", "?", "R", ")", "(", "?", ">", "a", ")", BS, "1", DQ, " ", DQ, "(", "?", "=", "a", ")", DQ>>

\* regex y=1 field=x "p"
LineRegexBothRules ==
    <<"r", "e", "g", "e", "x", " ", "y", "=", "1", " ", "f", "i", "e", "l", "d", "=", "x", " ", DQ, "p", DQ>>

Corpus ==
    {LineRexLookarounds,
     LineRegexThreeFeatures,
     LineRegexUnterminatedThenSpans,
     LineRegexPipeInQuotes,
     LineRexPipeInQuotes,
     LineRegexBothRules,
     \* regex myfield=v "p"
     <<"r", "e", "g", "e", "x", " ", "m", "y", "f", "i", "e", "l", "d", "=", "v", " ", DQ, "p", DQ>>,
     \* regex field== y=1 "p"
     <<"r", "e", "g", "e", "x", " ", "f", "i", "e", "l", "d", "=", "=", " ", "y", "=", "1", " ", DQ, "p", DQ>>,
     \* regex "a" x=1
     <<"r", "e", "g", "e", "x", " ", DQ, "a", DQ, " ", "x", "=", "1">>,
     \* search "REX" rEgEx
     <<"s", "e", "a", "r", "c", "h", " ", DQ, "R", "E", "X", DQ, " ", "r", "E", "g", "E", "x">>,
     LineUnderscoreRex,
     LineDigitRegex,
     LineRexEscaped,
     LineRegexTwoQuoted,
     LineRexFoo,
     LineRexDoubled,
     LineRexUnterminated,
     LineRexFailThenOk,
     LineRexArgsThenPipe,
     LineRegexNoPipe,
     LineRexThenRegex,
     LineRegexTwice,
     LineNoCommand,
     LineBlank}

\* Bound: the number of fragments concatenated into a generated line.
MaxFrags == 4

\* The pieces generated lines are built of: the keywords, a word character,
\* the pipe and both quotes.
Frags ==
    {REX, REGEX, <<PIPE>>, <<DQ>>, <<SQ>>, <<"a">>}

RECURSIVE Concat(_)
Concat(fs) == IF fs = <<>> THEN <<>> ELSE Head(fs) \o Concat(Tail(fs))

FragLines == {Concat(fs) : fs \in Strs(Frags, MaxFrags)}

\* Bound: the number of fragments of the argument text of a generated regex
\* command.
MaxFieldFrags == 4

\* The pieces the argument text is built of: the key "field" in lower and
\* in mixed case, a name character, a dot, a blank and the equals sign.
FieldFrags ==
    {<<"f", "i", "e", "l", "d">>, <<"F", "i", "e", "L", "D">>, <<"x">>, <<".">>,
     <<" ">>, <<"=">>}

\* regex<argument text> "p"
FieldLines ==
    {REGEX \o Concat(fs) \o <<" ", DQ, "p", DQ>> : fs \in Strs(FieldFrags, MaxFieldFrags)}

Lines == Corpus \cup FragLines \cup FieldLines

(***************************************************************************)
(* analyze_file                                                            *)
(*                                                                         *)
(* The file is the sequence of its lines after rstrip("\n").               *)
(***************************************************************************)
\* Bound: the number of lines of an input file.
MaxLines == 2

\* The lines input files are made of.
FileCorpus ==
    {LineBlank, LineNoCommand, LineRexUnterminated, LineRexFailThenOk,
     LineRexFoo, LineRexDoubled, LineRexLookarounds, LineRegexThreeFeatures}

\* Line 267-276.
InitialTotals ==
    [lines |-> 0, rex_commands |-> 0, regex_commands |-> 0, total_patterns |-> 0,
     java_incompatible_patterns |-> 0, lucene_incompatible_patterns |-> 0,
     java_feature_counts |-> [f \in {} |-> 0],
     lucene_feature_counts |-> [f \in {} |-> 0]]

\* Line 281: not line.strip()
IsBlank(line) == \A k \in DOMAIN line : line[k] \in WhiteSpace

\* ",".join(xs)
RECURSIVE Join(_)
Join(xs) ==
    IF xs = <<>> THEN ""
    ELSE IF Len(xs) = 1 THEN xs[1]
    ELSE xs[1] \o "," \o Join(Tail(xs))

\* d[ftr] = d.get(ftr, 0) + 1
Increment(d, ftr) ==
    [f \in DOMAIN d \cup {ftr} |->
        (IF f \in DOMAIN d THEN d[f] ELSE 0) + (IF f = ftr THEN 1 ELSE 0)]

\* Faulty variant of IncrementAll: only the first offending feature is counted.
IncrementAll_FirstOnly(d, ftrs) ==
    IF ftrs = <<>> THEN d ELSE Increment(d, Head(ftrs))

\* Lines 302-303, 306-307: one increment per offending feature.
RECURSIVE IncrementAll(_, _)
IncrementAll(d, ftrs) ==
    IF ftrs = <<>> THEN d ELSE IncrementAll(Increment(d, Head(ftrs)), Tail(ftrs))

\* Lines 294-307: the totals after one item.
CountItem(tot, java, luc) ==
    LET t1 == [tot EXCEPT !.total_patterns = @ + 1]
        t2 == IF java.incompatible
              THEN [t1 EXCEPT !.java_incompatible_patterns = @ + 1,
                              !.java_feature_counts = IncrementAll(@, java.bad)]
              ELSE t1
    IN  IF luc.incompatible
        THEN [t2 EXCEPT !.lucene_incompatible_patterns = @ + 1,
                        !.lucene_feature_counts = IncrementAll(@, luc.bad)]
        ELSE t2

\* Lines 309-322.
Row(i, line, item, feats, java, luc) ==
    [line_number |-> i,
     command |-> item.cmd,
     cmd_index_on_line |-> item.cmd_index_on_line,
     pattern_index_in_cmd |-> item.pattern_index_in_cmd,
     field |-> item.field,
     pattern |-> item.pattern,
     features_detected |-> Join(feats),
     java_incompatible |-> java.incompatible,
     java_incompat_features |-> Join(java.bad),
     lucene_incompatible |-> luc.incompatible,
     lucene_incompat_features |-> Join(luc.bad),
     line |-> line]

\* Faulty variant of FoldItems: the list of hits is not emptied between two items
\* of a line.
RECURSIVE FoldItems_SharedHits(_, _, _, _, _, _)
FoldItems_SharedHits(items, k, i, line, rs, tot) ==
    IF k > Len(items) THEN [rows |-> rs, totals |-> tot]
    ELSE LET feats == Concat([j \in 1..k |-> detect_features(items[j].pattern)])
             java == incompatible_for("java", feats)
             luc == incompatible_for("lucene", feats)
         IN  FoldItems_SharedHits(items, k + 1, i, line,
                                  Append(rs, Row(i, line, items[k], feats, java, luc)),
                                  CountItem(tot, java, luc))

\* Lines 293-322: the loop over rex_items + regex_items, from the k-th
\* item, on the rows and totals so far.
RECURSIVE FoldItems(_, _, _, _, _, _)
FoldItems(items, k, i, line, rs, tot) ==
    IF k > Len(items) THEN [rows |-> rs, totals |-> tot]
    ELSE LET feats == detect_features(items[k].pattern)
             java == incompatible_for("java", feats)
             luc == incompatible_for("lucene", feats)
         IN  FoldItems(items, k + 1, i, line,
                       Append(rs, Row(i, line, items[k], feats, java, luc)),
                       CountItem(tot, java, luc))

\* Faulty variant of DistinctCommands: the records are counted.
DistinctCommands_CountsPatterns(items) == Len(items)

\* len({x['cmd_index_on_line'] for x in items})
DistinctCommands(items) ==
    Cardinality({items[k].cmd_index_on_line : k \in DOMAIN items})

\* Faulty variant of AnalyzeOneLine: the line number counts the lines that are not
\* blank.
AnalyzeOneLine_CountsNonEmpty(i, line, rs, tot) ==
    LET rex == extract_from_rex(line)
        regex == extract_from_regex(line)
        t1 == [tot EXCEPT !.lines = @ + 1,
                          !.rex_commands = @ + DistinctCommands(rex),
                          !.regex_commands = @ + DistinctCommands(regex)]
    IN  FoldItems(rex \o regex, 1, tot.lines + 1, line, rs, t1)

\* Lines 283-322: the body of the loop for a line that is not blank, read
\* as the i-th line of the stream.
AnalyzeOneLine(i, line, rs, tot) ==
    LET rex == extract_from_rex(line)
        regex == extract_from_regex(line)
        t1 == [tot EXCEPT !.lines = @ + 1,
                          !.rex_commands = @ + DistinctCommands(rex),
                          !.regex_commands = @ + DistinctCommands(regex)]
    IN  FoldItems(rex \o regex, 1, i, line, rs, t1)

\* The line variables while no line is being processed.
LineIdle ==
    /\ curline = <<>> /\ tokens = <<>> /\ rex_items = <<>> /\ regex_items = <<>>
    /\ lpc = "idle"

\* The scanner variable while no call is being stepped.
ScanIdle == sc = ScanReturn(ScanFrame(<<>>, 0), None)

\* What analyze_file returns for the lines from the n-th on, on the rows
\* and totals so far.
RECURSIVE AnalyzeFrom(_, _, _, _)
AnalyzeFrom(lines, n, rs, tot) ==
    IF n > Len(lines) THEN [rows |-> rs, totals |-> tot]
    ELSE IF IsBlank(lines[n]) THEN AnalyzeFrom(lines, n + 1, rs, tot)
    ELSE LET r == AnalyzeOneLine(n, lines[n], rs, tot)
         IN  AnalyzeFrom(lines, n + 1, r.rows, r.totals)

analyze_file(lines) == AnalyzeFrom(lines, 1, <<>>, InitialTotals)

\* The verdicts before any classification.
NoVerdict ==
    [java |-> [incompatible |-> FALSE, bad |-> <<>>],
     lucene |-> [incompatible |-> FALSE, bad |-> <<>>]]

\* The pattern variables while no pattern is being classified on its own.
PatternIdle == text = <<>> /\ hits = <<>> /\ verdict = NoVerdict /\ dpc = "idle"

\* The variables of analyze_file while it is not running.
FileIdle ==
    /\ file = <<>> /\ nread = 0 /\ rows = <<>> /\ totals = InitialTotals
    /\ apc = "idle" /\ io = <<>>

\* An entry of the record of file operations: path is "input", "csv" or
\* "json".
Event(op, path) == [op |-> op, path |-> path]

\* What a report path holds: nothing ("absent"), something older ("old"),
\* or what write_reports wrote: the header and the rows of the CSV, the
\* totals of the JSON.
Report(kind, header, rs, tot) ==
    [kind |-> kind, header |-> header, rows |-> rs, totals |-> tot]

Absent == Report("absent", <<>>, <<>>, <<>>)

Old == Report("old", <<>>, <<>>, <<>>)

\* What the three paths hold: the input path names nothing ("absent"), a
\* readable file ("file"), a file whose reading fails with an OSError
\* ("faulty") or a directory.
Disk(input, csv, json) == [input |-> input, csv |-> csv, json |-> json]

\* The exit status while the process has not exited.
Running == -1

\* The variables of main while it is not running; kind is what the input
\* path names.
MainIdle(kind) ==
    /\ argv = <<>> /\ disk = Disk(kind, Absent, Absent)
    /\ mpc = "idle" /\ exit_code = Running /\ stderr = <<>>

\* The frame of _find_all_quoted on entry (lines 143-145).
FindFrame(s) == [s |-> s, i |-> 0, n |-> Len(s), out |-> <<>>, pc |-> "loop"]

\* The frame variable while no call is being stepped.
FindIdle == fq = [FindFrame(<<>>) EXCEPT !.pc = "idle"]

\* The frame of upload_to_opensearch when the bulk upload begins (lines
\* 283-284): yielded is the number of lines generate_bulk_data has yielded,
\* posts the requests sent to _bulk with the status of the response.
UploadFrame(batch_size, total_docs) ==
    [batch_size |-> batch_size, total_docs |-> total_docs, yielded |-> 0,
     batch_data |-> <<>>, doc_count |-> 0, posts |-> <<>>, pc |-> "loop"]

\* The frame variable while no upload is running.
BulkIdle == up = [UploadFrame(1, 0) EXCEPT !.pc = "idle"]

AnalyzeInit ==
    /\ file \in Strs(FileCorpus, MaxLines)
    /\ nread = 0 /\ rows = <<>> /\ totals = InitialTotals
    /\ apc = "call" /\ io = <<>>
    /\ ScanIdle
    /\ LineIdle
    /\ PatternIdle
    /\ FindIdle
    /\ MainIdle("file")
    /\ BulkIdle

\* Line 278: the stream is opened.
AnalyzeOpen ==
    /\ apc = "call"
    /\ disk.input \in {"file", "faulty"}
    /\ apc' = "reading"
    /\ io' = Append(io, Event("open", "input"))
    /\ UNCHANGED <<sc, lineVars, file, nread, rows, totals, patVars, findVars, mainVars, bulkVars>>

\* Faulty variant of AnalyzeSkipBlank: a blank line is counted.
AnalyzeSkipBlank_CountsLine ==
    /\ apc = "reading" /\ nread < Len(file)
    /\ IsBlank(file[nread + 1])
    /\ nread' = nread + 1
    /\ curline' = file[nread + 1]
    /\ totals' = [totals EXCEPT !.lines = @ + 1]
    /\ UNCHANGED <<sc, tokens, rex_items, regex_items, lpc, file, rows, apc, io,
                   patVars, findVars, mainVars, bulkVars>>

\* Lines 279-282: a blank line is read and skipped.
AnalyzeSkipBlank ==
    /\ apc = "reading" /\ nread < Len(file)
    /\ IsBlank(file[nread + 1])
    /\ nread' = nread + 1
    /\ curline' = file[nread + 1]
    /\ UNCHANGED <<sc, tokens, rex_items, regex_items, lpc, file, rows, totals, apc, io,
                   patVars, findVars, mainVars, bulkVars>>

\* Lines 279-322: a line is read, extracted from, classified and counted.
AnalyzeLine ==
    /\ apc = "reading" /\ nread < Len(file)
    /\ ~IsBlank(file[nread + 1])
    /\ LET r == AnalyzeOneLine(nread + 1, file[nread + 1], rows, totals)
       IN  rows' = r.rows /\ totals' = r.totals
    /\ nread' = nread + 1
    /\ curline' = file[nread + 1]
    /\ rex_items' = extract_from_rex(file[nread + 1])
    /\ regex_items' = extract_from_regex(file[nread + 1])
    /\ UNCHANGED <<sc, tokens, lpc, file, apc, io, patVars, findVars, mainVars, bulkVars>>

\* Line 324: the stream is exhausted and closed, rows and totals returned.
AnalyzeReturn ==
    /\ apc = "reading" /\ nread = Len(file)
    /\ apc' = "returned"
    /\ io' = Append(io, Event("close", "input"))
    /\ UNCHANGED <<sc, lineVars, file, nread, rows, totals, patVars, findVars, mainVars, bulkVars>>

Next == AnalyzeOpen \/ AnalyzeSkipBlank \/ AnalyzeLine \/ AnalyzeReturn

Spec == AnalyzeInit /\ [][Next]_vars

(***************************************************************************)
(* The scanner run step by step on every text and offset                   *)
(***************************************************************************)
ScanInit ==
    /\ \E s \in Strs(ScanAlphabet, MaxScanLen) :
          \E i \in 0..(Len(s) + 1) : sc = ScanFrame(s, i)
    /\ LineIdle
    /\ FileIdle
    /\ PatternIdle
    /\ FindIdle
    /\ MainIdle("absent")
    /\ BulkIdle

ScanEntry ==
    sc.pc = "entry" /\ sc' = ScanEntryStep(sc) /\ UNCHANGED <<lineVars, fileVars, patVars, findVars, mainVars, bulkVars>>

ScanDoubled ==
    sc.pc = "doubled" /\ sc' = ScanDoubledStep(sc) /\ UNCHANGED <<lineVars, fileVars, patVars, findVars, mainVars, bulkVars>>

ScanStandard ==
    sc.pc = "standard" /\ sc' = ScanStandardStep(sc) /\ UNCHANGED <<lineVars, fileVars, patVars, findVars, mainVars, bulkVars>>

ScanNext == ScanEntry \/ ScanDoubled \/ ScanStandard

SpecScan == ScanInit /\ [][ScanNext]_vars

(***************************************************************************)
(* The tokenizer and the two extractors applied to every line              *)
(***************************************************************************)
LineInit ==
    /\ curline \in Lines
    /\ tokens = <<>> /\ rex_items = <<>> /\ regex_items = <<>>
    /\ lpc = "start"
    /\ ScanIdle
    /\ FileIdle
    /\ PatternIdle
    /\ FindIdle
    /\ MainIdle("absent")
    /\ BulkIdle

IterCommandTokens ==
    /\ lpc = "start"
    /\ tokens' = _iter_command_tokens(curline)
    /\ lpc' = "tokens"
    /\ UNCHANGED <<sc, curline, rex_items, regex_items, fileVars, patVars, findVars, mainVars, bulkVars>>

ExtractFromRex ==
    /\ lpc = "tokens"
    /\ rex_items' = extract_from_rex(curline)
    /\ lpc' = "rex"
    /\ UNCHANGED <<sc, curline, tokens, regex_items, fileVars, patVars, findVars, mainVars, bulkVars>>

ExtractFromRegex ==
    /\ lpc = "rex"
    /\ regex_items' = extract_from_regex(curline)
    /\ lpc' = "regex"
    /\ UNCHANGED <<sc, curline, tokens, rex_items, fileVars, patVars, findVars, mainVars, bulkVars>>

LineNext == IterCommandTokens \/ ExtractFromRex \/ ExtractFromRegex

SpecLine == LineInit /\ [][LineNext]_vars

(***************************************************************************)
(* detect_features and incompatible_for applied to every pattern text      *)
(***************************************************************************)
\* Bound: the length of the generated texts of backslashes and digits.
MaxPatternLen == 5

\* The characters the numbered-backreference detector distinguishes: the
\* backslash, a digit 1-9, the digit 0 and one other character.
BackrefAlphabet == {BS, "1", "0", "a"}

\* Bound: the number of fragments concatenated into a generated pattern.
MaxFeatureFrags == 2

\* One construct per detector of the catalog, a backslash and a letter.
FeatureFrags ==
    <<
     <<"(", "?", "=">>,
     <<"(", "?", "<", "=">>,
     <<"(", "?", ">">>,
     <<"a", "+", "+">>,
     <<"(", "*", "F", "A", "I", "L", ")">>,
     <<"(", "?", PIPE>>,
     <<"(", "?", "R", ")">>,
     <<BS, "g", "1">>,
     <<"(", "?", "&", "n", ")">>,
     <<"(", "?", "(", "1", ")">>,
     <<"(", "?", "C", ")">>,
     <<BS, "k", "<", "n", ">">>,
     <<"(", "?", "<", "n", ">">>,
     <<"(", "?", SQ, "n", SQ>>,
     <<BS, "1">>,
     <<"(", "?", "i", ")">>,
     <<"(", "*", "U", "C", "P", ")">>,
     <<BS>>,
     <<"a">>
    >>

\* The texts handed to detect_features: every text of backslashes and
\* digits, every concatenation of constructs, and all constructs at once.
Patterns ==
    Strs(BackrefAlphabet, MaxPatternLen)
    \cup {Concat(fs) : fs \in Strs(Range(FeatureFrags), MaxFeatureFrags)}
    \cup {Concat(FeatureFrags)}

PatternInit ==
    /\ text \in Patterns
    /\ hits = <<>> /\ verdict = NoVerdict /\ dpc = "start"
    /\ ScanIdle
    /\ LineIdle
    /\ FileIdle
    /\ FindIdle
    /\ MainIdle("absent")
    /\ BulkIdle

\* Line 295: feats = detect_features(item["pattern"])
DetectFeatures ==
    /\ dpc = "start"
    /\ hits' = detect_features(text)
    /\ dpc' = "detected"
    /\ UNCHANGED <<sc, lineVars, fileVars, text, verdict, findVars, mainVars, bulkVars>>

\* Line 297: java_bad, java_feats = incompatible_for("java", feats)
ClassifyJava ==
    /\ dpc = "detected"
    /\ verdict' = [verdict EXCEPT !.java = incompatible_for("java", hits)]
    /\ dpc' = "java"
    /\ UNCHANGED <<sc, lineVars, fileVars, text, hits, findVars, mainVars, bulkVars>>

\* Line 298: luc_bad, luc_feats = incompatible_for("lucene", feats)
ClassifyLucene ==
    /\ dpc = "java"
    /\ verdict' = [verdict EXCEPT !.lucene = incompatible_for("lucene", hits)]
    /\ dpc' = "lucene"
    /\ UNCHANGED <<sc, lineVars, fileVars, text, hits, findVars, mainVars, bulkVars>>

PatternNext == DetectFeatures \/ ClassifyJava \/ ClassifyLucene

SpecPattern == PatternInit /\ [][PatternNext]_vars

(***************************************************************************)
(* Properties of the quoted-span scanner (SpecScan)                        *)
(***************************************************************************)
(***************************************************************************)
(* _find_all_quoted run step by step on every text                         *)
(***************************************************************************)
\* Bound: longest text handed to _find_all_quoted.
MaxFindLen == 5

FindInit ==
    /\ fq = [FindFrame(<<>>) EXCEPT !.pc = "call"]
    /\ ScanIdle
    /\ LineIdle
    /\ FileIdle
    /\ PatternIdle
    /\ MainIdle("absent")
    /\ BulkIdle

\* Line 141: _find_all_quoted is called on a text.
FindCall ==
    /\ fq.pc = "call"
    /\ \E s \in Strs(ScanAlphabet, MaxFindLen) : fq' = FindFrame(s)
    /\ UNCHANGED <<sc, lineVars, fileVars, patVars, mainVars, bulkVars>>

\* Lines 146-148: a quote at i; _scan_quoted is called there.
FindTry ==
    /\ fq.pc = "loop" /\ fq.i < fq.n
    /\ Idx(fq.s, fq.i) \in {SQ, DQ}
    /\ sc' = ScanFrame(fq.s, fq.i)
    /\ fq' = [fq EXCEPT !.pc = "scanning"]
    /\ UNCHANGED <<lineVars, fileVars, patVars, mainVars, bulkVars>>

\* Faulty variant of FindSpan: after a span the scan goes on at the next character.
FindSpan_StepsOne ==
    /\ fq.pc = "scanning" /\ sc.pc = "done" /\ sc.res # None
    /\ fq' = [fq EXCEPT !.out = Append(@, [start |-> fq.i, end |-> sc.res.end,
                                           content |-> sc.res.content]),
                        !.i = fq.i + 1,
                        !.pc = "loop"]
    /\ UNCHANGED <<sc, lineVars, fileVars, patVars, mainVars, bulkVars>>

\* Lines 149-153: the quote starts a span; it is appended and the scan goes
\* on at its end.
FindSpan ==
    /\ fq.pc = "scanning" /\ sc.pc = "done" /\ sc.res # None
    /\ fq' = [fq EXCEPT !.out = Append(@, [start |-> fq.i, end |-> sc.res.end,
                                           content |-> sc.res.content]),
                        !.i = sc.res.end,
                        !.pc = "loop"]
    /\ UNCHANGED <<sc, lineVars, fileVars, patVars, mainVars, bulkVars>>

\* Lines 147, 149, 154: no quote at i, or a quote that starts no span; the
\* scan goes on at the next character.
FindSkip ==
    /\ \/ fq.pc = "loop" /\ fq.i < fq.n /\ Idx(fq.s, fq.i) \notin {SQ, DQ}
       \/ fq.pc = "scanning" /\ sc.pc = "done" /\ sc.res = None
    /\ fq' = [fq EXCEPT !.i = fq.i + 1, !.pc = "loop"]
    /\ UNCHANGED <<sc, lineVars, fileVars, patVars, mainVars, bulkVars>>

\* Lines 146, 155: the text is exhausted.
FindReturn ==
    /\ fq.pc = "loop" /\ fq.i >= fq.n
    /\ fq' = [fq EXCEPT !.pc = "done"]
    /\ UNCHANGED <<sc, lineVars, fileVars, patVars, mainVars, bulkVars>>

FindNext == FindCall \/ FindTry \/ ScanNext \/ FindSpan \/ FindSkip \/ FindReturn

\* The loop has no suspension point: a call that can take a step takes it.
SpecFind == FindInit /\ [][FindNext]_vars /\ WF_vars(FindNext)

(***************************************************************************)
(* main: the arguments, analyze_file, write_reports, the exit status       *)
(***************************************************************************)
\* Bound: the number of lines of the input file given to main.
MaxMainLines == 2

\* The lines the input files of main are made of.
MainCorpus == {<<>>, LineBlank, LineRexFoo, LineRegexThreeFeatures}

\* Lines 336-342: the header of the CSV.
FIELDNAMES ==
    <<"line_number", "command", "cmd_index_on_line", "pattern_index_in_cmd", "field",
      "pattern", "features_detected",
      "java_incompatible", "java_incompat_features",
      "lucene_incompatible", "lucene_incompat_features",
      "line">>

\* The process starts: zero, one or two arguments; the input path names
\* nothing, a directory, or a file with its lines; the report paths hold
\* nothing or older reports.
MainInit ==
    /\ argv \in Strs({"queries.txt"}, 2)
    /\ \E kind \in {"absent", "directory", "file", "faulty"} :
          \E before \in {Absent, Old} :
              /\ disk = Disk(kind, before, before)
              /\ IF kind \in {"file", "faulty"}
                 THEN file \in Strs(MainCorpus, MaxMainLines)
                 ELSE file = <<>>
    /\ nread = 0 /\ rows = <<>> /\ totals = InitialTotals
    /\ apc = "idle" /\ io = <<>>
    /\ mpc = "start" /\ exit_code = Running /\ stderr = <<>>
    /\ ScanIdle
    /\ LineIdle
    /\ PatternIdle
    /\ FindIdle
    /\ BulkIdle

\* Lines 394-396: the usage error.
MainArgs ==
    /\ mpc = "start"
    /\ IF Len(argv) # 1
       THEN /\ stderr' = Append(stderr, "Usage")
            /\ exit_code' = 2
            /\ mpc' = "exited"
       ELSE /\ mpc' = "path"
            /\ UNCHANGED <<stderr, exit_code>>
    /\ UNCHANGED <<sc, lineVars, fileVars, patVars, findVars, argv, disk, bulkVars>>

\* Faulty variant of MainPath: the path is not tested.
MainPath_NoCheck ==
    /\ mpc = "path"
    /\ mpc' = "analyze" /\ apc' = "call"
    /\ UNCHANGED <<stderr, exit_code>>
    /\ UNCHANGED <<sc, lineVars, file, nread, rows, totals, io, patVars, findVars,
                   argv, disk, bulkVars>>

\* Lines 397-402: a path that names nothing ends the process with status 1;
\* otherwise analyze_file is called.
MainPath ==
    /\ mpc = "path"
    /\ IF disk.input = "absent"
       THEN /\ stderr' = Append(stderr, "Input file not found")
            /\ exit_code' = 1
            /\ mpc' = "exited"
            /\ UNCHANGED apc
       ELSE /\ mpc' = "analyze" /\ apc' = "call"
            /\ UNCHANGED <<stderr, exit_code>>
    /\ UNCHANGED <<sc, lineVars, file, nread, rows, totals, io, patVars, findVars,
                   argv, disk, bulkVars>>

\* Line 278: path.open raises (the path names a directory, or nothing); no
\* stream is opened.
AnalyzeOpenFails ==
    /\ apc = "call"
    /\ disk.input \in {"absent", "directory"}
    /\ apc' = "raised"
    /\ UNCHANGED <<sc, lineVars, file, nread, rows, totals, io, patVars, findVars,
                   mainVars, bulkVars>>

\* Faulty variant of AnalyzeReadFails: the stream is left open.
AnalyzeReadFails_LeaksStream ==
    /\ apc = "reading"
    /\ disk.input = "faulty"
    /\ apc' = "raised"
    /\ UNCHANGED <<sc, lineVars, file, nread, rows, totals, io, patVars, findVars,
                   mainVars, bulkVars>>

\* Lines 278-279: reading the next line raises OSError; the with statement
\* closes the stream and the exception leaves analyze_file.
AnalyzeReadFails ==
    /\ apc = "reading"
    /\ disk.input = "faulty"
    /\ apc' = "raised"
    /\ io' = Append(io, Event("close", "input"))
    /\ UNCHANGED <<sc, lineVars, file, nread, rows, totals, patVars, findVars,
                   mainVars, bulkVars>>

\* Line 402: the exception of analyze_file is not caught: traceback, status 1.
MainUncaught ==
    /\ mpc = "analyze" /\ apc = "raised"
    /\ stderr' = Append(stderr, "Traceback")
    /\ exit_code' = 1
    /\ mpc' = "exited"
    /\ UNCHANGED <<sc, lineVars, fileVars, patVars, findVars, argv, disk, bulkVars>>

\* Lines 403, 335-345: the CSV is opened for writing, the header and one
\* line per row are written, the file is closed.
WriteCsv ==
    /\ mpc = "analyze" /\ apc = "returned"
    /\ io' = io \o <<Event("open", "csv"), Event("close", "csv")>>
    /\ disk' = [disk EXCEPT !.csv = Report("csv", FIELDNAMES, rows, <<>>)]
    /\ mpc' = "csv"
    /\ UNCHANGED <<sc, lineVars, file, nread, rows, totals, apc, patVars, findVars,
                   argv, exit_code, stderr, bulkVars>>

\* Lines 347-350: the JSON is opened for writing, the totals are dumped, the
\* file is closed.
WriteJson ==
    /\ mpc = "csv"
    /\ io' = io \o <<Event("open", "json"), Event("close", "json")>>
    /\ disk' = [disk EXCEPT !.json = Report("json", <<>>, <<>>, totals)]
    /\ mpc' = "json"
    /\ UNCHANGED <<sc, lineVars, file, nread, rows, totals, apc, patVars, findVars,
                   argv, exit_code, stderr, bulkVars>>

\* Lines 405-409: the summary is printed and main returns: status 0.
MainSummary ==
    /\ mpc = "json"
    /\ exit_code' = 0
    /\ mpc' = "exited"
    /\ UNCHANGED <<sc, lineVars, fileVars, patVars, findVars, argv, disk, stderr, bulkVars>>

MainNext ==
    \/ MainArgs \/ MainPath
    \/ AnalyzeOpen \/ AnalyzeOpenFails \/ AnalyzeSkipBlank \/ AnalyzeLine
    \/ AnalyzeReadFails \/ AnalyzeReturn
    \/ MainUncaught \/ WriteCsv \/ WriteJson \/ MainSummary

SpecMain == MainInit /\ [][MainNext]_vars

(***************************************************************************)
(* index_bulk.py: the bulk upload of upload_to_opensearch                  *)
(***************************************************************************)
\* Bound: total_docs, the number of documents generated.
MaxDocs == 4

\* Bound: batch_size, the number of documents of a full request.
MaxBatch == 3

\* The status codes of a response: 200 and an error.
StatusCodes == {200, 500}

\* generate_bulk_data, lines 114-121: the k-th line yielded, k = 1, 2, ...:
\* the action line of document i + 1, then its document line.
NthLine(k) ==
    [kind |-> IF k % 2 = 1 THEN "action" ELSE "document", id |-> (k + 1) \div 2]

\* Lines 283-284: the upload begins; batch_size is at least 1.
BulkInit ==
    /\ \E batch_size \in 1..MaxBatch : \E total_docs \in 0..MaxDocs :
          up = UploadFrame(batch_size, total_docs)
    /\ ScanIdle
    /\ LineIdle
    /\ FileIdle
    /\ PatternIdle
    /\ FindIdle
    /\ MainIdle("absent")

\* Lines 286-289: the generator yields a line, it is appended to the batch,
\* and the batch is tested for batch_size * 2 lines.
BulkAppend ==
    /\ up.pc = "loop" /\ up.yielded < 2 * up.total_docs
    /\ LET batch == Append(up.batch_data, NthLine(up.yielded + 1))
       IN  up' = [up EXCEPT !.batch_data = batch,
                            !.yielded = @ + 1,
                            !.pc = IF Len(batch) >= up.batch_size * 2 THEN "post" ELSE "loop"]
    /\ UNCHANGED <<sc, lineVars, fileVars, patVars, findVars, mainVars>>

\* Faulty variant of BulkPost: a batch that got an error response is kept and sent
\* again.
BulkPost_RetriesFailed ==
    /\ up.pc = "post"
    /\ \E status \in StatusCodes :
          up' = [up EXCEPT !.posts = Append(@, [body |-> up.batch_data, status |-> status]),
                           !.doc_count = IF status = 200 THEN @ + up.batch_size ELSE @,
                           !.batch_data = IF status = 200 THEN <<>> ELSE @,
                           !.pc = "loop"]
    /\ UNCHANGED <<sc, lineVars, fileVars, patVars, findVars, mainVars>>

\* Lines 291-306: the batch is posted; doc_count grows on status 200; the
\* batch is emptied whatever the status.
BulkPost ==
    /\ up.pc = "post"
    /\ \E status \in StatusCodes :
          up' = [up EXCEPT !.posts = Append(@, [body |-> up.batch_data, status |-> status]),
                           !.doc_count = IF status = 200 THEN @ + up.batch_size ELSE @,
                           !.batch_data = <<>>,
                           !.pc = "loop"]
    /\ UNCHANGED <<sc, lineVars, fileVars, patVars, findVars, mainVars>>

\* Lines 286, 309-316: the generator is exhausted; what is left in the batch
\* is posted, the response is not looked at.
BulkFinal ==
    /\ up.pc = "loop" /\ up.yielded = 2 * up.total_docs
    /\ IF up.batch_data # <<>>
       THEN \E status \in StatusCodes :
               up' = [up EXCEPT !.posts = Append(@, [body |-> up.batch_data,
                                                    status |-> status]),
                                !.pc = "done"]
       ELSE up' = [up EXCEPT !.pc = "done"]
    /\ UNCHANGED <<sc, lineVars, fileVars, patVars, findVars, mainVars>>

\* Lines 293-297, 311-315: session.post raises (the connection fails); nothing
\* catches it, the upload ends with what is left unsent.
BulkPostRaises ==
    /\ \/ up.pc = "post"
       \/ up.pc = "loop" /\ up.yielded = 2 * up.total_docs /\ up.batch_data # <<>>
    /\ up' = [up EXCEPT !.pc = "raised"]
    /\ UNCHANGED <<sc, lineVars, fileVars, patVars, findVars, mainVars>>

BulkNext == BulkAppend \/ BulkPost \/ BulkPostRaises \/ BulkFinal

SpecUpload == BulkInit /\ [][BulkNext]_vars

ScanFinished == sc.pc = "done"

\* The call starts on two adjacent double quotes.
StartsDoubled(s, i) == i + 1 < Len(s) /\ Idx(s, i) = DQ /\ Idx(s, i + 1) = DQ

\* The call starts on a quote that is not the first of two double quotes.
StartsStandard(s, i) ==
    i < Len(s) /\ Idx(s, i) \in {SQ, DQ} /\ ~StartsDoubled(s, i)

\* Offsets j >= from at which an adjacent pair of double quotes starts.
PairsFrom(s, from) ==
    {j \in from..(Len(s) - 2) : Idx(s, j) = DQ /\ Idx(s, j + 1) = DQ}

\* The length of the run of backslashes that ends just before offset p and
\* does not reach below offset from.
BackslashRun(s, from, p) ==
    Cardinality({k \in 1..(p - from) : \A q \in (p - k)..(p - 1) : Idx(s, q) = BS})

\* Offsets j >= from holding the character q outside any backslash escape.
UnescapedFrom(s, from, q) ==
    {j \in from..(Len(s) - 1) : Idx(s, j) = q /\ BackslashRun(s, from, j) % 2 = 0}

\* C2: on every text and every offset i >= 0 the scanner never raises (no
\* read outside the text), every step that does not return moves the scan
\* offset strictly forward within len(s) + 1 (so the scan terminates), and
\* what it returns is None or a pair (end, content).
C2_ScanNeverRaises ==
    [][ /\ sc'.pc # "raise"
        /\ sc'.pc = "done" \/ (sc'.i > sc.i /\ sc'.i <= Len(sc.s) + 1)
        /\ sc'.pc = "done" =>
              \/ sc'.res = None
              \/ /\ sc'.res.ok
                 /\ sc'.res.end \in 0..Len(sc.s)
                 /\ sc'.res.content \in Strs(ScanAlphabet, Len(sc.s)) ]_vars

\* C2 witness: a backslash is the last character of the text; the scan
\* stepped over the end and returned None.
C2_Witness ==
    /\ ScanFinished /\ sc.res = None /\ sc.dialect = "standard"
    /\ sc.i = Len(sc.s) + 1 /\ Idx(sc.s, Len(sc.s) - 1) = BS

\* C3: started on two adjacent double quotes, the scanner returns
\* (j + 2, s[i+2:j]) for the smallest j >= i + 2 where an adjacent pair of
\* double quotes starts, and None when there is no such j.
C3_DoubledDialect ==
    (ScanFinished /\ StartsDoubled(sc.s, sc.i0)) =>
        LET J == PairsFrom(sc.s, sc.i0 + 2) IN
        IF J = {} THEN sc.res = None
        ELSE sc.res = Span(Min(J) + 2, Slice(sc.s, sc.i0 + 2, Min(J)))

\* C3 witness: a doubled-quote span whose content holds a lone double quote.
C3_Witness ==
    /\ ScanFinished /\ StartsDoubled(sc.s, sc.i0) /\ sc.res.ok
    /\ \E k \in 1..Len(sc.res.content) : sc.res.content[k] = DQ

\* C4: started on a ' or a single ", the scanner returns (j + 1, s[i+1:j])
\* for the smallest j >= i + 1 that holds the opening quote character and is
\* not the character after a backslash of an escape, and None when there is
\* no such j.
C4_StandardDialect ==
    (ScanFinished /\ StartsStandard(sc.s, sc.i0)) =>
        LET J == UnescapedFrom(sc.s, sc.i0 + 1, Idx(sc.s, sc.i0)) IN
        IF J = {} THEN sc.res = None
        ELSE sc.res = Span(Min(J) + 1, Slice(sc.s, sc.i0 + 1, Min(J)))

\* C4 witness: a standard span that steps over an escaped opening quote
\* character and over the other quote character.
C4_Witness ==
    /\ ScanFinished /\ StartsStandard(sc.s, sc.i0) /\ sc.res.ok
    /\ \E k \in 1..(Len(sc.res.content) - 1) :
          sc.res.content[k] = BS /\ sc.res.content[k + 1] = Idx(sc.s, sc.i0)
    /\ \E k \in 1..Len(sc.res.content) :
          sc.res.content[k] \in {SQ, DQ} \ {Idx(sc.s, sc.i0)}

\* C5: one dialect per start offset.  On two adjacent double quotes only
\* the doubled-quote loop ever runs, and when it finds no closing pair the
\* result is None (not the empty standard string); on any other quote only
\* the standard loop runs; on anything else no loop runs.
C5_OneDialect ==
    /\ StartsDoubled(sc.s, sc.i0) =>
          /\ sc.pc # "standard"
          /\ sc.pc # "entry" => sc.dialect = "doubled"
          /\ (ScanFinished /\ PairsFrom(sc.s, sc.i0 + 2) = {}) => sc.res = None
    /\ StartsStandard(sc.s, sc.i0) =>
          /\ sc.pc # "doubled"
          /\ sc.pc # "entry" => sc.dialect = "standard"
    /\ (~StartsDoubled(sc.s, sc.i0) /\ ~StartsStandard(sc.s, sc.i0)) =>
          sc.pc \in {"entry", "done"} /\ sc.dialect = "none"

\* C5 witness: two double quotes with no closing pair after them: no span.
C5_Witness ==
    /\ ScanFinished /\ StartsDoubled(sc.s, sc.i0) /\ sc.i0 + 2 = Len(sc.s)
    /\ sc.res = None

\* The number of quote characters that open (and close) a span.
MarkerLen == IF sc.dialect = "doubled" THEN 2 ELSE 1

\* C6: a returned span has i < end <= len(s); its content is the region of
\* s strictly between the opening and the closing marker; the content holds
\* no unescaped closing sequence; nothing outside the text was read.
C6_SpanWellFormed ==
    /\ sc.pc # "raise"
    /\ (ScanFinished /\ sc.res.ok) =>
          LET s == sc.s
              i == sc.i0
              end == sc.res.end
              c == sc.res.content
              m == MarkerLen
          IN  /\ i < end /\ end <= Len(s)
              /\ i + m <= end - m
              /\ c = Slice(s, i + m, end - m)
              /\ \A k \in (i..(i + m - 1)) \cup ((end - m)..(end - 1)) :
                    Idx(s, k) = Idx(s, i)
              /\ sc.dialect = "doubled" => PairsFrom(c, 0) = {}
              /\ sc.dialect = "standard" => UnescapedFrom(c, 0, Idx(s, i)) = {}

\* C6 witness: a doubled-quote span that ends exactly at the end of the
\* text, with a non-empty content.
C6_Witness ==
    /\ ScanFinished /\ sc.res.ok /\ sc.dialect = "doubled"
    /\ sc.res.end = Len(sc.s) /\ sc.res.content # <<>>

\* C7 as claimed: in the standard dialect the returned content has its
\* escape sequences resolved (an escaped quote without its backslash).
C7_ContentDecoded ==
    (ScanFinished /\ sc.res.ok /\ sc.dialect = "standard") =>
        sc.res.content = Unescape(Slice(sc.s, sc.i0 + 1, sc.res.end - 1))

\* C7 as amended: in both dialects the content is the literal text between
\* the markers; the backslashes of the standard dialect stay in it.
C7_ContentLiteral ==
    (ScanFinished /\ sc.res.ok) =>
        /\ sc.res.content = Slice(sc.s, sc.i0 + MarkerLen, sc.res.end - MarkerLen)
        /\ Len(sc.res.content) = sc.res.end - sc.i0 - 2 * MarkerLen

\* C7 witness: a standard span whose content holds an escaped quote, with
\* its backslash.
C7_Witness ==
    /\ ScanFinished /\ sc.res.ok /\ sc.dialect = "standard"
    /\ \E k \in 1..(Len(sc.res.content) - 1) :
          sc.res.content[k] = BS /\ sc.res.content[k + 1] = Idx(sc.s, sc.i0)

(***************************************************************************)
(* Properties of the tokenizer and the extractors (SpecLine)               *)
(***************************************************************************)
Tokenized == lpc \in {"tokens", "rex", "regex"}

RexExtracted == lpc \in {"rex", "regex"}

RegexExtracted == lpc = "regex"

IsWordAt(s, p) == p >= 0 /\ p < Len(s) /\ Idx(s, p) \in WordChars

\* The whole-word occurrences of the two keywords in s, in any letter case:
\* pairs of the keyword and the start offset.
Occurrences(s) ==
    {<<kw, p>> \in {REX, REGEX} \X (0..Len(s)) :
        /\ p + Len(kw) <= Len(s)
        /\ LowerStr(Slice(s, p, p + Len(kw))) = kw
        /\ ~IsWordAt(s, p - 1)
        /\ ~IsWordAt(s, p + Len(kw))}

\* C8: _iter_command_tokens yields, by strictly increasing start offset,
\* exactly the case-insensitive whole-word occurrences of "rex" and "regex"
\* of the line (inside quotes or not), each with the keyword in lower case
\* and end = start + length of the keyword.
C8_TokensAreWholeWords ==
    Tokenized =>
        /\ \A k \in 1..(Len(tokens) - 1) : tokens[k].s < tokens[k + 1].s
        /\ \A k \in DOMAIN tokens :
              /\ tokens[k].cmd \in {REX, REGEX}
              /\ tokens[k].e = tokens[k].s + Len(tokens[k].cmd)
        /\ {<<tokens[k].cmd, tokens[k].s>> : k \in DOMAIN tokens} = Occurrences(curline)

\* C8 witness: a keyword written in upper case between two double quotes
\* is yielded, in lower case.
C8_Witness ==
    /\ Tokenized
    /\ \E k \in DOMAIN tokens :
          /\ Slice(curline, tokens[k].s, tokens[k].e) # tokens[k].cmd
          /\ Idx(curline, tokens[k].s - 1) = DQ
          /\ Idx(curline, tokens[k].e) = DQ

\* Offsets at or after from that hold a character of cs.
OffsetsOf(s, cs, from) == {j \in from..(Len(s) - 1) : Idx(s, j) \in cs}

\* What the rex keyword ending at e gives: nothing when no quote follows or
\* a pipe comes first, else the span scanned at the first quote (or None).
RexSpanAfter(s, e) ==
    LET Q == OffsetsOf(s, {SQ, DQ}, e)
        P == OffsetsOf(s, {PIPE}, e)
    IN  IF Q = {} \/ (P # {} /\ Min(P) < Min(Q)) THEN None
        ELSE _scan_quoted(s, Min(Q))

\* C9: extract_from_rex gives at most one record per rex occurrence, always
\* with cmd "rex", pattern index 1 and field ""; an occurrence gives none
\* when a pipe or the line end comes before any quote; otherwise its
\* record carries the content of the span starting at the first quote after
\* the keyword.  `rex "foo(bar)"` gives exactly one record, foo(bar).
C9_RexOneRecordPerOccurrence ==
    RexExtracted =>
        LET toks == _iter_command_tokens(curline)
            Of(k) == {j \in DOMAIN rex_items : rex_items[j].cmd_index_on_line = k}
        IN  /\ \A j \in DOMAIN rex_items :
                  /\ rex_items[j].cmd = REX
                  /\ rex_items[j].field = <<>>
                  /\ rex_items[j].pattern_index_in_cmd = 1
                  /\ rex_items[j].cmd_index_on_line \in DOMAIN toks
            /\ \A k \in DOMAIN toks :
                  LET span == RexSpanAfter(curline, toks[k].e)
                  IN  IF toks[k].cmd = REX /\ span.ok
                      THEN \E j \in DOMAIN rex_items :
                              Of(k) = {j} /\ rex_items[j].pattern = span.content
                      ELSE Of(k) = {}
            /\ curline = LineRexFoo =>
                  rex_items = <<Item(REX, 1, <<>>,
                                     <<"f", "o", "o", "(", "b", "a", "r", ")">>, 1)>>

\* C9 witness: the first rex meets a pipe before any quote and gives no
\* record; the second skips its arguments and gives its pattern.
C9_Witness ==
    /\ RexExtracted /\ curline = LineRexArgsThenPipe
    /\ rex_items = <<Item(REX, 2, <<>>, <<"s", "/", "a", "/", "b", "/">>, 1)>>

\* C1 as claimed: `regex field=x ("a"|"b")` gives two records, "a" with
\* pattern index 1 and "b" with pattern index 2, both of command 1 with
\* field "x".
C1_TwoQuotedFragments ==
    (RegexExtracted /\ curline = LineRegexTwoQuoted) =>
        regex_items = <<Item(REGEX, 1, <<"x">>, <<"a">>, 1),
                        Item(REGEX, 1, <<"x">>, <<"b">>, 2)>>

\* C1 as amended: the body of the command ends at the pipe, so the line
\* gives the one record of "a" (pattern index 1, field "x", command 1);
\* the same command without the pipe gives the two records.
C1_BodyEndsAtPipe ==
    RegexExtracted =>
        /\ curline = LineRegexTwoQuoted =>
              regex_items = <<Item(REGEX, 1, <<"x">>, <<"a">>, 1)>>
        /\ curline = LineRegexNoPipe =>
              regex_items = <<Item(REGEX, 1, <<"x">>, <<"a">>, 1),
                              Item(REGEX, 1, <<"x">>, <<"b">>, 2)>>

\* C1 witness: the line of the claim has been extracted from.
C1_Witness ==
    /\ RegexExtracted /\ curline = LineRegexTwoQuoted
    /\ Len(regex_items) = 1 /\ regex_items[1].field = <<"x">>

\* The elements of a set of numbers in ascending order.
RECURSIVE Ascending(_)
Ascending(S) == IF S = {} THEN <<>> ELSE <<Min(S)>> \o Ascending(S \ {Min(S)})

\* The end offsets of the whole-word regex keywords of s, left to right.
RegexEnds(s) ==
    Ascending({p + Len(REGEX) : p \in {q \in 0..Len(s) : <<REGEX, q>> \in Occurrences(s)}})

\* The text from offset e up to the first pipe at or after e, or to the end.
BodyAfter(s, e) ==
    LET P == OffsetsOf(s, {PIPE}, e)
    IN  Slice(s, e, IF P = {} THEN Len(s) ELSE Min(P))

\* The contents of the quoted spans of b from offset p on: the span at the
\* leftmost offset at or after p where one starts, then those after its end.
RECURSIVE SpansFrom(_, _)
SpansFrom(b, p) ==
    LET J == {j \in p..(Len(b) - 1) : _scan_quoted(b, j).ok}
    IN  IF J = {} THEN <<>>
        ELSE <<_scan_quoted(b, Min(J)).content>>
             \o SpansFrom(b, _scan_quoted(b, Min(J)).end)

\* The records of the k-th regex occurrence, in the order of the output.
RegexRecordsOf(k) == SelectSeq(regex_items, LAMBDA r : r.cmd_index_on_line = k)

\* C11: for each regex occurrence extract_from_regex gives one record per
\* quoted span of the body, the spans being found left to right (after a
\* span the scan goes on at its end, after a quote that starts no span at
\* the next character); the records of an occurrence carry the pattern
\* indices 1, 2, ..., k in the order found, one field and one command index.
C11_RegexOneRecordPerSpan ==
    RegexExtracted =>
        LET ends == RegexEnds(curline)
        IN  /\ \A j \in DOMAIN regex_items :
                  /\ regex_items[j].cmd = REGEX
                  /\ regex_items[j].cmd_index_on_line \in DOMAIN ends
            /\ \A j \in 1..(Len(regex_items) - 1) :
                  regex_items[j].cmd_index_on_line <= regex_items[j + 1].cmd_index_on_line
            /\ \A k \in DOMAIN ends :
                  LET spans == SpansFrom(BodyAfter(curline, ends[k]), 0)
                      recs == RegexRecordsOf(k)
                  IN  /\ Len(recs) = Len(spans)
                      /\ \A m \in DOMAIN recs :
                            /\ recs[m].pattern = spans[m]
                            /\ recs[m].pattern_index_in_cmd = m
                            /\ recs[m].field = recs[1].field

\* C11 witness: the body opens with a quote that is never closed; the two
\* spans after it are found, in both dialects.
C11_Witness ==
    /\ RegexExtracted /\ curline = LineRegexUnterminatedThenSpans
    /\ regex_items = <<Item(REGEX, 1, <<>>, <<"b">>, 1), Item(REGEX, 1, <<>>, <<"c">>, 2)>>

\* The end of the run that starts at offset p of b and is made of the
\* characters of cs (inside) or of the characters not of cs (~inside).
RunEnd(b, p, cs, inside) ==
    Min({j \in p..Len(b) : j = Len(b) \/ ((Idx(b, j) \in cs) # inside)})

FIELD == <<"f", "i", "e", "l", "d">>

\* The characters a field value is not made of.
ValueStops == WhiteSpace \cup {"=", PIPE}

\* Where the value of a `field = value` assignment whose key starts at
\* offset p of b starts, or -1 when no such assignment starts at p.
ValueStart(b, p) ==
    IF /\ p + Len(FIELD) <= Len(b)
       /\ LowerStr(Slice(b, p, p + Len(FIELD))) = FIELD
       /\ ~IsWordAt(b, p - 1)
    THEN LET q == RunEnd(b, p + Len(FIELD), WhiteSpace, TRUE)
             v == RunEnd(b, q + 1, WhiteSpace, TRUE)
         IN  IF q < Len(b) /\ Idx(b, q) = "=" /\ v < Len(b) /\ Idx(b, v) \notin ValueStops
             THEN v ELSE -1
    ELSE -1

\* The characters of the name of a leading assignment.
NameChars == WordChars \cup {".", "-"}

\* The offsets of b where the name of a `name =` assignment starts: at the
\* start of b or after a blank, a run of name characters, then blanks or
\* none, then the equals sign.
LeadStarts(b) ==
    {p \in 0..(Len(b) - 1) :
        /\ p = 0 \/ Idx(b, p - 1) \in WhiteSpace
        /\ Idx(b, p) \in NameChars
        /\ LET q == RunEnd(b, RunEnd(b, p, NameChars, TRUE), WhiteSpace, TRUE)
           IN  q < Len(b) /\ Idx(b, q) = "="}

\* Rule (a), then rule (b), then the empty field.
ResolvedField(b) ==
    LET A == {p \in 0..(Len(b) - 1) : ValueStart(b, p) # -1}
        B == LeadStarts(b)
    IN  IF A # {}
        THEN LET v == ValueStart(b, Min(A)) IN Slice(b, v, RunEnd(b, v, ValueStops, FALSE))
        ELSE IF B # {}
             THEN LET name == Slice(b, Min(B), RunEnd(b, Min(B), NameChars, TRUE))
                  IN  IF LowerStr(name) = FIELD THEN <<>> ELSE name
             ELSE <<>>

PipeOrEnd(s, e) ==
    LET P == OffsetsOf(s, {PIPE}, e) IN IF P = {} THEN Len(s) ELSE Min(P)

\* C13: the body of a regex command runs from the keyword to the first
\* pipe after it, whatever the quotes: its records are those the command
\* gives on the line cut off at that pipe, so a quoted fragment that starts
\* after a pipe, inside the quotes of the command or not, is not found; and
\* no pattern and no field of a regex record holds a pipe.
C13_RegexBodyStopsAtPipe ==
    RegexExtracted =>
        /\ \A j \in DOMAIN regex_items :
              /\ \A m \in DOMAIN regex_items[j].pattern : regex_items[j].pattern[m] # PIPE
              /\ \A m \in DOMAIN regex_items[j].field : regex_items[j].field[m] # PIPE
        /\ \A k \in DOMAIN RegexEnds(curline) :
              LET cut == Slice(curline, 0, PipeOrEnd(curline, RegexEnds(curline)[k]))
              IN  RegexRecordsOf(k) =
                      SelectSeq(extract_from_regex(cut), LAMBDA r : r.cmd_index_on_line = k)

\* C13 witness: the second quoted span of the command holds a pipe; the
\* span before it is the only one found, the one after it is not.
C13_Witness ==
    /\ RegexExtracted /\ curline = LineRegexPipeInQuotes
    /\ Len(_find_all_quoted(Slice(curline, Len(REGEX), Len(curline)))) = 3
    /\ regex_items = <<Item(REGEX, 1, <<"x">>, <<"a">>, 1)>>

\* s with the pipes at the offsets a .. b - 1 replaced by a letter.
WithoutPipes(s, a, b) ==
    [j \in DOMAIN s |-> IF a <= j - 1 /\ j - 1 < b /\ s[j] = PIPE THEN "a" ELSE s[j]]

\* C14: a rex keyword followed by a quote before any pipe gives the span
\* the scanner finds at that quote on the whole line (no record when there
\* is none); the pipes between the quotes are ordinary characters: with a
\* letter in the place of each of them the pattern is the same text with
\* the same letters in their places.
C14_RexPatternKeepsPipes ==
    RexExtracted =>
        LET toks == tokens
        IN  \A k \in DOMAIN toks :
                LET Q == OffsetsOf(curline, {SQ, DQ}, toks[k].e)
                    recs == SelectSeq(rex_items, LAMBDA r : r.cmd_index_on_line = k)
                IN  (toks[k].cmd = REX /\ Q # {} /\ Min(Q) < PipeOrEnd(curline, toks[k].e)) =>
                        LET span == _scan_quoted(curline, Min(Q))
                            plain == WithoutPipes(curline, Min(Q), span.end)
                        IN  IF ~span.ok THEN recs = <<>>
                            ELSE /\ recs = <<Item(REX, k, <<>>, span.content, 1)>>
                                 /\ RexOccurrence(plain, k, toks[k]) =
                                       <<Item(REX, k, <<>>,
                                              WithoutPipes(span.content, 0, Len(span.content)), 1)>>

\* C14 witness: the pattern holds two pipes and ends after them, and a
\* further pipe follows the closing quote.
C14_Witness ==
    /\ RexExtracted /\ curline = LineRexPipeInQuotes
    /\ rex_items = <<Item(REX, 1, <<>>, <<"a", PIPE, "b", PIPE, "c">>, 1)>>

(***************************************************************************)
(* Properties of detect_features and incompatible_for (SpecPattern)        *)
(***************************************************************************)
Detected == dpc \in {"detected", "java", "lucene"}

Classified == dpc = "lucene"

\* The table of an engine.
TableOf(engine) == IF engine = "java" THEN JAVA_INCOMPATIBLE ELSE LUCENE_INCOMPATIBLE

\* C15: for both engines and every feature list detect_features produces,
\* the offending list of incompatible_for holds exactly the detected
\* features that are in the engine's table, each once, in ascending
\* alphabetical order, and the flag is true exactly when the list is not
\* empty.
C15_VerdictIsSortedIntersection ==
    Classified =>
        \A engine \in {"java", "lucene"} :
            LET bad == verdict[engine].bad
            IN  /\ Range(bad) = Range(hits) \cap TableOf(engine)
                /\ \A j \in 1..(Len(bad) - 1) : Rank(bad[j]) < Rank(bad[j + 1])
                /\ verdict[engine].incompatible = (bad # <<>>)

\* C15 witness: detection order and alphabetical order differ (lookahead
\* is detected before backtracking_control), and the two engines get
\* different lists.
C15_Witness ==
    /\ Classified
    /\ hits = <<"lookahead", "backtracking_control">>
    /\ verdict.lucene = [incompatible |-> TRUE,
                         bad |-> <<"backtracking_control", "lookahead">>]
    /\ verdict.java = [incompatible |-> TRUE, bad |-> <<"backtracking_control">>]

\* The number of backslashes that end just before offset p of s.
BackslashesBefore(s, p) == BackslashRun(s, 0, p)

\* C18 as claimed: backref_number is reported exactly when a digit 1-9
\* follows an unescaped backslash, one that is not the escaped character
\* of a backslash escape before it (an even number of backslashes stands
\* before it).
C18_BackrefAfterUnescapedBackslash ==
    Detected =>
        ("backref_number" \in Range(hits)) <=>
            \E p \in 0..(Len(text) - 2) :
                /\ Idx(text, p) = BS
                /\ BackslashesBefore(text, p) % 2 = 0
                /\ Idx(text, p + 1) \in Digits \ {"0"}

\* C18 witness: two backslashes, the escape of a backslash, then the
\* backreference \1; backref_number is not reported.
C18_Witness ==
    /\ Detected /\ text = <<BS, BS, BS, "1">>
    /\ "backref_number" \notin Range(hits)

(***************************************************************************)
(* Properties of analyze_file (Spec)                                       *)
(***************************************************************************)
\* The PatternRecord of a row.
Record(row) ==
    [line_number |-> row.line_number, command |-> row.command,
     cmd_index_on_line |-> row.cmd_index_on_line,
     pattern_index_in_cmd |-> row.pattern_index_in_cmd,
     field |-> row.field, pattern |-> row.pattern]

Records(rs) == [k \in DOMAIN rs |-> Record(rs[k])]

\* The rex occurrences of a line whose quote is unterminated: a quote is
\* reached before any pipe and no span starts there.
FailingRex(s) ==
    LET toks == _iter_command_tokens(s)
    IN  {k \in DOMAIN toks :
            LET Q == OffsetsOf(s, {SQ, DQ}, toks[k].e)
                P == OffsetsOf(s, {PIPE}, toks[k].e)
            IN  /\ toks[k].cmd = REX
                /\ Q # {} /\ (P = {} \/ Min(Q) < Min(P))
                /\ _scan_quoted(s, Min(Q)) = None}

\* The rex occurrences of a line that give a record.
YieldingRex(s) ==
    LET toks == _iter_command_tokens(s)
    IN  {k \in DOMAIN toks : toks[k].cmd = REX /\ RexSpanAfter(s, toks[k].e).ok}

\* The line without the keyword of its k-th command occurrence.
WithoutOccurrence(s, k) ==
    LET tok == _iter_command_tokens(s)[k]
    IN  Slice(s, 0, tok.s) \o Slice(s, tok.e, Len(s))

\* The rows of the j-th line of the file, in order.
RowsOfLine(j) == SelectSeq(rows, LAMBDA r : r.line_number = j)

\* C10 as claimed: the records of a run are the same as if a failing rex
\* occurrence were absent from its line.
C10_AsIfOccurrenceAbsent ==
    apc = "returned" =>
        \A j \in DOMAIN file : \A k \in FailingRex(file[j]) :
            Records(rows) =
                Records(analyze_file([file EXCEPT ![j] = WithoutOccurrence(file[j], k)]).rows)

\* C10 as amended: a rex occurrence whose quote is unterminated gives no
\* record; every other rex occurrence of the line gives the record of its
\* own span under its own index, which counts the failing occurrences too;
\* the regex occurrences of the line give their records; and every line of
\* the file is read before analyze_file returns.
C10_ScanFailureAbsorbed ==
    /\ \A j \in 1..nread :
          LET s == file[j]
              toks == _iter_command_tokens(s)
              rexRows == SelectSeq(RowsOfLine(j), LAMBDA r : r.command = REX)
              regexRows == SelectSeq(RowsOfLine(j), LAMBDA r : r.command = REGEX)
          IN  IF IsBlank(s) THEN RowsOfLine(j) = <<>>
              ELSE /\ \A k \in FailingRex(s) :
                         \A m \in DOMAIN rexRows : rexRows[m].cmd_index_on_line # k
                   /\ Len(rexRows) = Cardinality(YieldingRex(s))
                   /\ \A k \in YieldingRex(s) :
                         \E m \in DOMAIN rexRows :
                             /\ rexRows[m].cmd_index_on_line = k
                             /\ rexRows[m].pattern = RexSpanAfter(s, toks[k].e).content
                   /\ Len(regexRows) = Len(extract_from_regex(s))
                   /\ RowsOfLine(j) = rexRows \o regexRows
    /\ \A m \in DOMAIN rows : rows[m].line_number \in 1..nread
    /\ apc = "returned" => nread = Len(file)

\* C10 witness: the first rex of the first line fails, the second rex of
\* that line and the rex of the next line give their records.
C10_Witness ==
    /\ apc = "returned"
    /\ file = <<LineRexFailThenOk, LineRexFoo>>
    /\ Len(rows) = 2
    /\ rows[1].cmd_index_on_line = 2 /\ rows[1].pattern = <<"b">>
    /\ rows[2].line_number = 2

\* The names of the catalog, in its order.
CatalogNames == [k \in DOMAIN DETECTORS |-> DETECTORS[k].name]

\* C16: a pattern whose detected features are some of angle-bracket named
\* capture, lookahead, lookbehind and possessive quantifier, and no other,
\* is incompatible for lucene with exactly those features listed, and not
\* incompatible for java, with an empty list; `rex ""a(?<x>b)""` gives the
\* pattern a(?<x>b) with this verdict.
C16_EngineAsymmetry ==
    /\ \A k \in DOMAIN rows :
          \A S \in SUBSET {"named_capture_angle", "lookahead", "lookbehind",
                           "possessive_quantifier"} :
              (S # {} /\ rows[k].features_detected = Join(Filter(CatalogNames, S))) =>
                  /\ rows[k].lucene_incompatible
                  /\ rows[k].lucene_incompat_features = Join(Filter(Alphabetical, S))
                  /\ ~rows[k].java_incompatible
                  /\ rows[k].java_incompat_features = ""
    /\ \A j \in 1..nread :
          file[j] = LineRexDoubled =>
              \E r \in Range(rows) :
                  /\ RowsOfLine(j) = <<r>>
                  /\ r.command = REX
                  /\ r.pattern = <<"a", "(", "?", "<", "x", ">", "b", ")">>
                  /\ r.features_detected = "named_capture_angle"
                  /\ r.lucene_incompatible
                  /\ r.lucene_incompat_features = "named_capture_angle"
                  /\ ~r.java_incompatible
                  /\ r.java_incompat_features = ""

\* C16 witness: the line of the claim, then a pattern with a lookahead, a
\* lookbehind and a possessive quantifier: lucene only.
C16_Witness ==
    /\ apc = "returned"
    /\ file = <<LineRexDoubled, LineRexLookarounds>>
    /\ Len(rows) = 2
    /\ rows[1].lucene_incompat_features = "named_capture_angle"
    /\ rows[2].lucene_incompat_features = "lookahead,lookbehind,possessive_quantifier"
    /\ ~rows[1].java_incompatible /\ ~rows[2].java_incompatible

Table(f) ==
    LET t == f
    IN  IF t = t THEN t ELSE <<>>

\* The sum of the values of a function with a finite domain.
RECURSIVE Sum(_)
Sum(d) ==
    IF DOMAIN d = {} THEN 0
    ELSE LET f == CHOOSE f \in DOMAIN d : TRUE
         IN  d[f] + Sum([g \in DOMAIN d \ {f} |-> d[g]])

\* C19: in every state, for both engines, the counter of a feature is the
\* number of rows so far whose offending list holds the feature, a feature
\* of no offending list has no counter, and the counters add up to at least
\* the number of incompatible patterns, to exactly that number only when
\* every incompatible pattern has one offending feature.
C19_FeatureCounts ==
    LET detected == Table([k \in DOMAIN rows |-> detect_features(rows[k].pattern)])
    IN  \A engine \in {"java", "lucene"} :
        LET counts == IF engine = "java" THEN totals.java_feature_counts
                      ELSE totals.lucene_feature_counts
            flagged == IF engine = "java" THEN totals.java_incompatible_patterns
                       ELSE totals.lucene_incompatible_patterns
            offending == Table([k \in DOMAIN rows |->
                                  incompatible_for(engine, detected[k]).bad])
            pairs == UNION {{<<k, f>> : f \in Range(offending[k])} : k \in DOMAIN rows}
            Bad == {k \in DOMAIN rows : offending[k] # <<>>}
        IN  /\ \A k \in DOMAIN rows :
                  /\ Join(offending[k]) =
                        (IF engine = "java" THEN rows[k].java_incompat_features
                         ELSE rows[k].lucene_incompat_features)
                  /\ (k \in Bad) =
                        (IF engine = "java" THEN rows[k].java_incompatible
                         ELSE rows[k].lucene_incompatible)
            /\ DOMAIN counts = {p[2] : p \in pairs}
            /\ \A f \in DOMAIN counts : counts[f] = Cardinality({p \in pairs : p[2] = f})
            /\ flagged = Cardinality(Bad)
            /\ Sum(counts) >= flagged
            /\ (Sum(counts) = flagged) <=>
                  \A k \in Bad : Len(offending[k]) = 1

\* C19 witness: one pattern with three offending features for lucene and
\* one for java has been counted: three lucene counters, one java counter.
C19_Witness ==
    /\ nread = 1 /\ file[1] = LineRegexThreeFeatures
    /\ totals.lucene_feature_counts =
          [f \in {"atomic_group", "backref_number", "recursion", "lookahead"} |-> 1]
    /\ totals.lucene_incompatible_patterns = 2
    /\ totals.java_feature_counts = [f \in {"recursion"} |-> 1]
    /\ totals.java_incompatible_patterns = 1

\* What a line adds to rex_commands, regex_commands and total_patterns: the
\* rex occurrences that give a record, the regex occurrences whose body
\* holds a quoted span, and the records of both.
LineTotals(s) ==
    LET ends == RegexEnds(s)
        spans == Table([k \in DOMAIN ends |-> SpansFrom(BodyAfter(s, ends[k]), 0)])
        yielding == {k \in DOMAIN ends : spans[k] # <<>>}
        rex == Cardinality(YieldingRex(s))
    IN  IF IsBlank(s) THEN [rex |-> 0, regex |-> 0, patterns |-> 0]
        ELSE [rex |-> rex,
              regex |-> Cardinality(yielding),
              patterns |-> rex + Sum([k \in yielding |-> Len(spans[k])])]

\* C20: the command totals count occurrences: every line read adds to
\* rex_commands and regex_commands the number of distinct command indices
\* among its rex and its regex records, that is one per occurrence that
\* gives a record, however many records it gives, and nothing for an
\* occurrence that gives none; total_patterns counts the records; and
\* rex_commands + regex_commands <= total_patterns in every state.
C20_CommandTotals ==
    LET per == Table([j \in 1..nread |-> LineTotals(file[j])])
        Indices(j, cmd) ==
            {r.cmd_index_on_line : r \in {q \in Range(RowsOfLine(j)) : q.command = cmd}}
    IN  /\ \A j \in 1..nread :
              /\ per[j].rex = Cardinality(Indices(j, REX))
              /\ per[j].regex = Cardinality(Indices(j, REGEX))
              /\ per[j].patterns = Len(RowsOfLine(j))
        /\ totals.rex_commands = Sum([j \in 1..nread |-> per[j].rex])
        /\ totals.regex_commands = Sum([j \in 1..nread |-> per[j].regex])
        /\ totals.total_patterns = Sum([j \in 1..nread |-> per[j].patterns])
        /\ totals.total_patterns = Len(rows)
        /\ totals.rex_commands + totals.regex_commands <= totals.total_patterns

\* C20 witness: a regex command with two patterns and a rex command with
\* none have been counted: one command, two patterns.
C20_Witness ==
    /\ apc = "returned"
    /\ file = <<LineRegexThreeFeatures, LineRexUnterminated>>
    /\ totals.lines = 2
    /\ totals.regex_commands = 1 /\ totals.rex_commands = 0
    /\ totals.total_patterns = 2

\* The number of lines among the first n of the file that are not blank.
NonBlankUpTo(n) == Cardinality({j \in 1..n : ~IsBlank(file[j])})

\* C21 as claimed: the line_number of every record is the position of its
\* line counted over the lines that are not blank, so no line_number
\* exceeds totals["lines"].
C21_LineNumberOverNonEmptyLines ==
    \A k \in DOMAIN rows :
        /\ rows[k].line_number <= totals.lines
        /\ \E j \in 1..nread :
              /\ file[j] = rows[k].line
              /\ rows[k].line_number = NonBlankUpTo(j)

\* C21 as amended: the line_number of every record is the position of its
\* line counted over all lines read, blank lines included; it never exceeds
\* the number of lines read, the rows are in the order of their lines, and
\* totals["lines"] counts the lines that are not blank.
C21_LineNumberOverAllLines ==
    /\ \A k \in DOMAIN rows :
          /\ rows[k].line_number \in 1..nread
          /\ file[rows[k].line_number] = rows[k].line
          /\ ~IsBlank(rows[k].line)
    /\ \A k, m \in DOMAIN rows : k < m => rows[k].line_number <= rows[m].line_number
    /\ totals.lines = NonBlankUpTo(nread)

\* C21 witness: a blank line comes first; the record of the second line has
\* line_number 2 while one line has been counted.
C21_Witness ==
    /\ apc = "returned"
    /\ file = <<LineBlank, LineRexFoo>>
    /\ Len(rows) = 1
    /\ rows[1].line_number = 2
    /\ totals.lines = 1

\* C25: the java table is a strict subset of the lucene table; for every
\* row the java offending list is within the lucene offending list and
\* java-incompatible implies lucene-incompatible; in every state
\* java_incompatible_patterns <= lucene_incompatible_patterns <=
\* total_patterns, and every java per-feature counter has a lucene counter
\* of the same feature with the same value.
C25_JavaWithinLucene ==
    /\ JAVA_INCOMPATIBLE \subseteq LUCENE_INCOMPATIBLE
    /\ JAVA_INCOMPATIBLE # LUCENE_INCOMPATIBLE
    /\ \A k \in DOMAIN rows :
          LET feats == detect_features(rows[k].pattern)
              java == incompatible_for("java", feats)
              luc == incompatible_for("lucene", feats)
          IN  /\ rows[k].java_incompat_features = Join(java.bad)
              /\ rows[k].lucene_incompat_features = Join(luc.bad)
              /\ Range(java.bad) \subseteq Range(luc.bad)
              /\ rows[k].java_incompatible => rows[k].lucene_incompatible
    /\ totals.java_incompatible_patterns <= totals.lucene_incompatible_patterns
    /\ totals.lucene_incompatible_patterns <= totals.total_patterns
    /\ \A f \in DOMAIN totals.java_feature_counts :
          /\ f \in DOMAIN totals.lucene_feature_counts
          /\ totals.java_feature_counts[f] = totals.lucene_feature_counts[f]

\* C25 witness: three patterns, all incompatible for lucene, one of them for
\* java too; recursion is counted once for either engine.
C25_Witness ==
    /\ apc = "returned"
    /\ file = <<LineRegexThreeFeatures, LineRexLookarounds>>
    /\ totals.total_patterns = 3
    /\ totals.lucene_incompatible_patterns = 3
    /\ totals.java_incompatible_patterns = 1
    /\ totals.java_feature_counts["recursion"] = 1
    /\ totals.lucene_feature_counts["recursion"] = 1

(***************************************************************************)
(* Properties of the tables (SpecPattern)                                  *)
(***************************************************************************)
\* C26: the lucene table holds exactly the names of the catalog, so a
\* pattern is incompatible for lucene exactly when detect_features returns
\* a list that is not empty, and its lucene offending list holds the
\* detected features, all of them, in alphabetical order.
C26_LuceneTableIsCatalog ==
    /\ LUCENE_INCOMPATIBLE = Range(CatalogNames)
    /\ Classified =>
          /\ verdict.lucene.incompatible = (hits # <<>>)
          /\ verdict.lucene.bad = Filter(Alphabetical, Range(hits))
          /\ Len(verdict.lucene.bad) = Len(hits)

\* C26 witness: two features detected in catalog order come out in
\* alphabetical order.
C26_Witness ==
    /\ Classified
    /\ hits = <<"lookahead", "atomic_group">>
    /\ verdict.lucene = [incompatible |-> TRUE, bad |-> <<"atomic_group", "lookahead">>]
    /\ ~verdict.java.incompatible

(***************************************************************************)
(* Properties of the command indices and of the bodies (SpecLine)          *)
(***************************************************************************)
\* C27 as claimed: cmd_index_on_line is the position of the occurrence in
\* one left-to-right numbering of all command occurrences of the line, rex
\* and regex alike: the token at the index of a record is the occurrence
\* of the record's command, so a rex record and a regex record of one line
\* never have the same index.
C27_OneNumberingForBothKinds ==
    RegexExtracted =>
        /\ \A r \in Range(rex_items) \cup Range(regex_items) :
              /\ r.cmd_index_on_line \in DOMAIN tokens
              /\ tokens[r.cmd_index_on_line].cmd = r.cmd
        /\ \A r \in Range(rex_items) : \A q \in Range(regex_items) :
              r.cmd_index_on_line # q.cmd_index_on_line

\* The offsets in s at which the body of some regex occurrence has a quoted
\* span.
RegexSpanStarts(s) ==
    LET ends == RegexEnds(s)
    IN  UNION {{ends[k] + q.start : q \in Range(_find_all_quoted(BodyAfter(s, ends[k])))} :
                  k \in DOMAIN ends}

\* C28 as claimed: the bodies of two regex occurrences of a line do not
\* overlap, with or without a pipe between the keywords, so the regex
\* records are at most as many as the quoted spans of the bodies, each span
\* taken once.
C28_SpanGivesOneRecord ==
    RegexExtracted =>
        LET ends == RegexEnds(curline)
        IN  /\ \A k, m \in DOMAIN ends :
                  k < m => PipeOrEnd(curline, ends[k]) <= ends[m]
            /\ Len(regex_items) <= Cardinality(RegexSpanStarts(curline))

(***************************************************************************)
(* Properties of _find_all_quoted (SpecFind)                               *)
(***************************************************************************)
\* The spans found so far are well formed: each starts on a quote at or
\* after the end of the span before it, ends after its start and within
\* the text, and holds what _scan_quoted returns at its start.
SpansWellFormed ==
    /\ fq.i <= fq.n
    /\ \A k \in DOMAIN fq.out :
          LET q == fq.out[k]
          IN  /\ Idx(fq.s, q.start) \in {SQ, DQ}
              /\ 0 <= q.start /\ q.start < q.end /\ q.end <= Len(fq.s)
              /\ q.end <= fq.i
              /\ _scan_quoted(fq.s, q.start) = Span(q.end, q.content)
              /\ k > 1 => /\ fq.out[k - 1].start < q.start
                          /\ fq.out[k - 1].end <= q.start
    /\ fq.pc = "done" => fq.out = _find_all_quoted(fq.s)

\* C29: _find_all_quoted terminates on every text: the scan index grows at
\* every iteration; the spans it returns are in strictly increasing order
\* of start, none starts before the end of the one before it, each starts
\* on a quote, has start < end <= len(s) and the content _scan_quoted
\* returns at its start.
C29_FindAllQuoted ==
    /\ []SpansWellFormed
    /\ [][(fq.pc \in {"loop", "scanning"} /\ fq'.pc = "loop") => fq'.i > fq.i]_vars
    /\ <>(fq.pc = "done")

\* C29 witness: two spans are found, the second starting where the first
\* ends.
C29_Witness ==
    /\ fq.pc = "done"
    /\ fq.s = <<DQ, "a", DQ, SQ, SQ>>
    /\ fq.out = <<[start |-> 0, end |-> 3, content |-> <<"a">>],
                  [start |-> 3, end |-> 5, content |-> <<>>]>>

(***************************************************************************)
(* Properties of main (SpecMain)                                           *)
(***************************************************************************)
\* The number of entries of the record of file operations with the
\* operation op on path.
CountOf(op, path) == Cardinality({k \in DOMAIN io : io[k] = Event(op, path)})

\* The paths that are open: opened more often than closed.
Held == {path \in {"input", "csv", "json"} : CountOf("open", path) > CountOf("close", path)}

\* C22: the input stream is opened at most once; while analyze_file reads
\* it is the only file held, and rows and totals are those of the lines
\* read so far, each taken whole before the next is read; the stream is
\* closed when analyze_file returns and when it raises, nothing is held
\* when the process has exited, and an output file is opened only after the
\* input stream has been closed.
C22_StreamHeldAndReleased ==
    /\ CountOf("open", "input") <= 1
    /\ apc = "reading" => Held = {"input"}
    /\ apc \in {"idle", "call", "returned", "raised"} => "input" \notin Held
    /\ mpc = "exited" => Held = {}
    /\ apc \in {"reading", "returned", "raised"} =>
          LET r == analyze_file(SubSeq(file, 1, nread))
          IN  rows = r.rows /\ totals = r.totals
    /\ apc = "returned" => nread = Len(file)
    /\ \A k \in DOMAIN io :
          (io[k].op = "open" /\ io[k].path \in {"csv", "json"}) =>
              \E j \in 1..(k - 1) : io[j] = Event("close", "input")

\* C22 witness: reading fails after the first line has been taken; the
\* stream has been closed and the process has exited without a report.
C22_Witness ==
    /\ mpc = "exited" /\ apc = "raised"
    /\ file = <<LineRexFoo, LineRegexThreeFeatures>>
    /\ nread = 1 /\ Len(rows) = 1
    /\ io = <<Event("open", "input"), Event("close", "input")>>
    /\ exit_code = 1

\* No file has been opened, analyze_file has not been called and the report
\* paths hold what they held before.
Untouched ==
    /\ apc = "idle" /\ io = <<>> /\ nread = 0 /\ rows = <<>>
    /\ disk.csv \in {Absent, Old} /\ disk.json \in {Absent, Old}

\* C23: with an argument count other than one main exits with status 2, and
\* with a path that names nothing with status 1, each with one message on
\* the error stream; in both cases, in every state, analyze_file and
\* write_reports have not been reached and no report has been written.
C23_EarlyExits ==
    /\ Len(argv) # 1 =>
          /\ Untouched
          /\ mpc = "exited" => exit_code = 2 /\ stderr = <<"Usage">>
    /\ (Len(argv) = 1 /\ disk.input = "absent") =>
          /\ Untouched
          /\ mpc = "exited" => exit_code = 1 /\ stderr = <<"Input file not found">>

\* C23 witness: the path names nothing while older reports exist; the
\* process has exited with status 1 and the reports are still the older ones.
C23_Witness ==
    /\ mpc = "exited"
    /\ Len(argv) = 1 /\ disk = Disk("absent", Old, Old)
    /\ exit_code = 1

\* C24: on an existing file without a line that is not blank (no line at
\* all, or blank lines only) the counters stay 0 and the feature counts
\* empty, no row is made, and the process exits with status 0 after writing
\* a CSV that is the header alone and the JSON of the totals.
C24_EmptyInput ==
    (Len(argv) = 1 /\ disk.input = "file" /\ \A j \in DOMAIN file : IsBlank(file[j])) =>
        /\ rows = <<>> /\ totals = InitialTotals
        /\ mpc = "exited" =>
              /\ exit_code = 0 /\ stderr = <<>>
              /\ disk.csv = Report("csv", FIELDNAMES, <<>>, <<>>)
              /\ disk.json = Report("json", <<>>, <<>>, InitialTotals)

\* C24 witness: a file of two blank lines has been audited.
C24_Witness ==
    /\ mpc = "exited" /\ exit_code = 0
    /\ disk.input = "file"
    /\ file = <<LineBlank, <<>>>>
    /\ nread = 2
    /\ disk.csv = Report("csv", FIELDNAMES, <<>>, <<>>)
    /\ disk.json.totals.lines = 0

(***************************************************************************)
(* Properties of the bulk upload (SpecUpload)                              *)
(***************************************************************************)
\* The lines sent so far, in the order sent.
Sent == Concat([k \in DOMAIN up.posts |-> up.posts[k].body])

\* The first n lines generate_bulk_data yields.
Generated(n) == [k \in 1..n |-> NthLine(k)]

\* The requests that carried batch_size documents and got status 200.
Acknowledged ==
    {k \in DOMAIN up.posts :
        up.posts[k].status = 200 /\ Len(up.posts[k].body) = 2 * up.batch_size}

\* C30: while the upload runs, the lines sent and the lines waiting in the
\* batch are, in order, the lines generated so far, so no line is sent twice and at the end every
\* document 1..total_docs has been sent once; a request holds whole
\* documents, the action line followed by the document line; every request
\* but the last of a finished upload holds batch_size documents and the
\* last at most that many; doc_count is batch_size times the number of full
\* requests answered with 200, and it exceeds neither the number of
\* documents sent nor total_docs.
C30_EveryDocumentPostedOnce ==
    /\ up.pc # "done" => Sent \o up.batch_data = Generated(up.yielded)
    /\ up.pc = "done" => Sent = Generated(2 * up.total_docs)
    /\ \A k \in DOMAIN up.posts :
          LET body == up.posts[k].body
          IN  /\ Len(body) % 2 = 0
              /\ Len(body) \in 2..(2 * up.batch_size)
              /\ \A j \in DOMAIN body :
                    j % 2 = 1 =>
                        /\ body[j].kind = "action"
                        /\ body[j + 1].kind = "document"
                        /\ body[j + 1].id = body[j].id
              /\ (k < Len(up.posts) \/ up.pc # "done") => Len(body) = 2 * up.batch_size
    /\ up.doc_count = up.batch_size * Cardinality(Acknowledged)
    /\ 2 * up.doc_count <= Len(Sent)
    /\ up.doc_count <= up.total_docs

\* C30 witness: three documents in batches of two: the full batch was
\* answered with 200 and counted, the last document went out in a final
\* request that is not counted.
C30_Witness ==
    /\ up.pc = "done"
    /\ up.batch_size = 2 /\ up.total_docs = 3
    /\ Len(up.posts) = 2
    /\ up.posts[1].status = 200
    /\ Len(up.posts[2].body) = 2
    /\ up.doc_count = 2

====
